---- MODULE Spec2Model ----
(***************************************************************************)
(* Wind-turbine audio telemetry pipeline (STWIN.box, ThreadX / NetX Duo).  *)
(*                                                                         *)
(*   FrameSource -> FrameQueue -> FeatureExtraction_ThreadEntry            *)
(*               -> PacketQueue -> Telemetry sender -> transport           *)
(*                                              \-> retained packet cache  *)
(*                                                                         *)
(* The repository holds three sender modules named app_telemetry.c.  The   *)
(* variable build says which one is linked:                                *)
(*   "NetXDuo"  NetXDuo/App/app_telemetry.c  (thread, one cached packet)   *)
(*   "CubeIDE"  STM32CubeIDE/Application/User/Core/app_telemetry.c         *)
(*              (thread, ring buffer of 10, overwrite when full)           *)
(*   "Core"     Core/Src/app_telemetry.c + Core/Inc/app_telemetry.h        *)
(*              (Telemetry_AddPacket, ring buffer of 10, reject when full) *)
(*                                                                         *)
(* One block of AUDIO_FRAME_SIZE samples is represented by the number of   *)
(* the frame that carried it; a block of zeroed samples by ZeroBlock.      *)
(***************************************************************************)
EXTENDS Integers, Sequences, FiniteSets, TLC

(* ------------------------------------------------------------------ *)
(* Program constants                                                   *)
(* ------------------------------------------------------------------ *)
AUDIO_TELEMETRY_VERSION == 1
AUDIO_FRAME_SIZE == 512
AUDIO_FRAMES_PER_PACKET == 4
AUDIO_SAMPLES_PER_PACKET == AUDIO_FRAME_SIZE * AUDIO_FRAMES_PER_PACKET
FEATURE_EXTRACT_QUEUE_DEPTH == 2
AUDIO_ACQ_QUEUE_DEPTH == 4
TELEMETRY_MAX_PACKETS == 10
AUDIO_ACQ_ERROR_DMA == 1
AUDIO_ACQ_ERROR_CLIPPING == 4
FFT_SIZE == 512
FFT_BANDS == 8
Q15_MAX == 32767
SAMPLE_RATE == 16000
BAND_WIDTH == 1000
TELEMETRY_UDP_PORT_TX == 5001
TELEMETRY_UDP_PORT_RX == 5000
\* IP_ADDRESS(a, b, c, d): an IPv4 address, kept as its four octets
IP_ADDRESS(a, b, c, d) == <<a, b, c, d>>
\* #define TELEMETRY_DEFAULT_IP_ADDR 0xFFFFFFFF
TELEMETRY_DEFAULT_IP_ADDR == IP_ADDRESS(255, 255, 255, 255)
\* a ULONG address of 0
IP_NONE == IP_ADDRESS(0, 0, 0, 0)
\* #define TELEMETRY_UDP_PORT: 5001 in the CubeIDE sender, 12345 in the Core sender
TELEMETRY_UDP_PORT(b) == IF b = "Core" THEN 12345 ELSE 5001
\* polls of IpAddress, 100 ticks apart, after which the startup thread gives up
IP_WAIT_POLLS == 600
\* largest value of the extractor's sequence counter before it is reset to 0
SEQ_MAX == 65535
\* number of values of a uint16_t field.  The uint32_t counters of the program
\* stay far below 2^32 in every run considered here and are left unreduced.
UINT16_RANGE == SEQ_MAX + 1

(* ------------------------------------------------------------------ *)
(* Bounds of the model                                                 *)
(* ------------------------------------------------------------------ *)
\* frames the frame source produces after the initial state
MaxFrames == 16
\* faults the environment may inject in one run: a frame with a non-zero
\* error_flags byte, a queue receive ending with a status other than success /
\* empty, a failing transmit
MaxFaults == 1
\* calls of Telemetry_GetLastPacket in one run
MaxReads == 1
\* frames that may wait in FrameQueue at once (never above AUDIO_ACQ_QUEUE_DEPTH)
MaxBacklog == 1
\* frames with error flags, where only the frame source is faulty
MaxFlagged == 2
\* frames produced by that source: three batches and the first frame of a fourth
MaxFlaggedFrames == 13
\* frames produced while the diagnostic calls are examined: two batches
MaxDiagnosticFrames == 8
\* frames produced while the destination is reconfigured: two batches
MaxDestinationFrames == 8
\* calls of Telemetry_SetReceiver and Telemetry_SetBroadcast in one run
MaxReconfigurations == 2
\* length of the sample pattern a measured frame repeats
MaxMotif == 2
\* calls of tx_thread_suspend made on the running stages in one run
MaxSuspensions == 2
\* frames produced while stages are suspended and resumed: two batches and
\* the first frame of a third
MaxSuspendFrames == 9
\* calls of Telemetry_BufferPut and Telemetry_BufferGet made on the ring in
\* one run: enough to fill it, overwrite two packets and read one
MaxRingCalls == 13
\* frames produced while the extractor is followed statement by statement:
\* three batches and the first frame of a fourth
MaxExtractorFrames == 13
\* completed accumulation cycles before the initial state of a long-running
\* system (the sequence counters are then about to wrap)
NearWrap == 65534

Builds == {"NetXDuo", "CubeIDE", "Core"}
\* marks a block of zeroed samples (no frame number is negative)
ZeroBlock == 0 - 1

VARIABLES
    build,              \* which app_telemetry.c is linked
    ran,                \* accumulation cycles completed before the initial state
    start_pc,           \* App_Startup_Thread_Entry: next step
    frame_counter,      \* FrameSource: number of the next frame
    frame_queue,        \* FrameQueue (AudioFrame_t records)
    feature_ctx,        \* feature_ctx: is_running, packet_count, error_count, seq_number
    feature_buffer,     \* feature_ctx.feature_buffer
    last_error_flags,   \* feature_extraction.c static
    output_queue,       \* feature_ctx.output_queue (PacketQueue)
    telemetry_ctx,      \* NetXDuo: telemetry_ctx
    telemetry_last_pkt, \* NetXDuo: cached packet
    telemetry_last_pkt_valid,
    sequence_number,    \* CubeIDE / Core static
    tx_count,           \* CubeIDE static
    error_count,        \* CubeIDE static
    telemetry_initialized,
    telemetry_started,  \* CubeIDE static
    telemetry_buffer,   \* CubeIDE / Core ring buffer; .mutex is the owner of
                        \* telemetry_buffer.mutex ("none", "sender", "reader")
    tel_pc,             \* sender thread: position in Telemetry_ThreadEntry
    tel_pkt,            \* sender thread: local pkt / packet
    tel_status,         \* sender thread: status of the transmit
    udp_socket,         \* sender endpoint: "none", "created", "bound"
    http_out,           \* diagnostic consumer: the last Telemetry_GetLastPacket,
                        \* [ret, pkt (the caller's buffer), out_null (NULL passed)]
    obs,                \* history of what the pipeline did (observation only)
    sys                 \* the kernel and the network stack: IpAddress (the address
                        \* the IP instance holds, 0 while none is assigned),
                        \* ip_seen (the startup thread read it as assigned),
                        \* wait_count (the startup thread's poll counter), fx_pc,
                        \* fx_status, frame (the extractor thread's position in
                        \* its loop and its locals status and frame) and
                        \* suspended (the threads another thread has suspended),
                        \* suspensions (how often that was done) and resumed_at
                        \* (frames received / packets dequeued by a thread when it
                        \* was last resumed, -1 if never)

vars == <<build, ran, sys, start_pc, frame_counter, frame_queue, feature_ctx,
          feature_buffer, last_error_flags, output_queue, telemetry_ctx,
          telemetry_last_pkt, telemetry_last_pkt_valid, sequence_number,
          tx_count, error_count, telemetry_initialized, telemetry_started,
          telemetry_buffer, tel_pc, tel_pkt, tel_status, udp_socket, http_out,
          obs>>

extractorVars == <<feature_ctx, feature_buffer, last_error_flags>>
senderVars == <<telemetry_ctx, telemetry_last_pkt, telemetry_last_pkt_valid,
                sequence_number, tx_count, error_count, telemetry_initialized,
                telemetry_started, telemetry_buffer, tel_pc, tel_pkt, tel_status,
                udp_socket>>

(* ------------------------------------------------------------------ *)
(* Data                                                                *)
(* ------------------------------------------------------------------ *)
\* AudioFrame_t: samples (one block), timestamp_ms, frame_number, error_flags
AudioFrame(n, flags) ==
    [samples |-> n, timestamp_ms |-> n + 1, frame_number |-> n, error_flags |-> flags]

\* memset(&feature_ctx.feature_buffer, 0, ...)
EmptyFeatureBuffer ==
    [accumulated_samples |-> [i \in 0 .. AUDIO_FRAMES_PER_PACKET - 1 |-> ZeroBlock],
     sample_count |-> 0,
     start_timestamp_ms |-> 0]

\* memset(pkt, 0, sizeof(*pkt)); features stands for the fields computed from
\* the samples: stats for RMS / ZCR / peak / SPL (the blocks they read), fft for
\* the band magnitudes (the blocks AudioFeatures_ComputeFFTBands reads)
ZeroPacket ==
    [version |-> 0, seq_number |-> 0, timestamp_ms |-> 0, zcr_count |-> 0,
     features |-> [stats |-> <<>>, fft |-> <<>>],
     status_flags |-> 0, error_count |-> 0]

(* ------------------------------------------------------------------ *)
(* Arithmetic helpers                                                  *)
(* ------------------------------------------------------------------ *)
RECURSIVE BitOr(_, _)
\* a | b on non-negative integers
BitOr(a, b) ==
    IF a = 0 THEN b
    ELSE IF b = 0 THEN a
    ELSE (IF a % 2 = 1 \/ b % 2 = 1 THEN 1 ELSE 0) + 2 * BitOr(a \div 2, b \div 2)

RECURSIVE BitAnd(_, _)
\* a & b on non-negative integers
BitAnd(a, b) ==
    IF a = 0 \/ b = 0 THEN 0
    ELSE (IF a % 2 = 1 /\ b % 2 = 1 THEN 1 ELSE 0) + 2 * BitAnd(a \div 2, b \div 2)

(* ------------------------------------------------------------------ *)
(* ThreadX queues, as the threads use them                             *)
(* ------------------------------------------------------------------ *)
\* variant: a send that makes room by discarding the oldest message
tx_queue_send_Overwrite(queue, depth, msg) ==
    IF Len(queue) < depth
    THEN [status |-> "TX_SUCCESS", queue |-> Append(queue, msg)]
    ELSE [status |-> "TX_QUEUE_FULL", queue |-> Append(Tail(queue), msg)]

\* tx_queue_send(queue, &msg, TX_NO_WAIT) on a queue of `depth` messages
tx_queue_send(queue, depth, msg) ==
    IF Len(queue) < depth
    THEN [status |-> "TX_SUCCESS", queue |-> Append(queue, msg)]
    ELSE [status |-> "TX_QUEUE_FULL", queue |-> queue]

\* variant: a receive that takes the newest message
tx_queue_receive_Newest(queue) ==
    [msg |-> queue[Len(queue)], queue |-> SubSeq(queue, 1, Len(queue) - 1)]

\* tx_queue_receive(queue, &msg, timeout) on a non-empty queue: the oldest message
tx_queue_receive(queue) ==
    [msg |-> Head(queue), queue |-> Tail(queue)]

(* ------------------------------------------------------------------ *)
(* FeatureExtractor (feature_extraction.c)                             *)
(* ------------------------------------------------------------------ *)
\* variant: the last block of the accumulator is never filled
AccumulatorHasRoom_Strict(sample_offset) ==
    sample_offset + AUDIO_FRAME_SIZE < AUDIO_SAMPLES_PER_PACKET

\* if (sample_offset + AUDIO_FRAME_SIZE <= AUDIO_SAMPLES_PER_PACKET)
AccumulatorHasRoom(sample_offset) ==
    sample_offset + AUDIO_FRAME_SIZE <= AUDIO_SAMPLES_PER_PACKET

\* "Copy frame samples to accumulator": the buffer and the merged flags after
\* one received frame
AccumulateFrame(buf, flags, frame) ==
    LET sample_offset == buf.sample_count
    IN  IF AccumulatorHasRoom(sample_offset)
        THEN LET count == buf.sample_count + AUDIO_FRAME_SIZE
                 copied == [buf EXCEPT
                              !.accumulated_samples[sample_offset \div AUDIO_FRAME_SIZE] =
                                  frame.samples,
                              !.sample_count = count]
             IN  [buf |-> IF count = 0
                          THEN [copied EXCEPT !.start_timestamp_ms = frame.timestamp_ms]
                          ELSE copied,
                  flags |-> IF frame.error_flags # 0
                            THEN BitOr(flags, frame.error_flags)
                            ELSE flags]
        ELSE [buf |-> buf, flags |-> flags]

\* variant: the batch is taken as complete one frame early
BatchComplete_OneFrameEarly(sample_count) ==
    sample_count >= AUDIO_SAMPLES_PER_PACKET - AUDIO_FRAME_SIZE

\* if (feature_ctx.feature_buffer.sample_count >= AUDIO_SAMPLES_PER_PACKET)
BatchComplete(sample_count) ==
    sample_count >= AUDIO_SAMPLES_PER_PACKET

\* the blocks a feature function reads when given `count` samples of buf
BlocksRead(buf, count) ==
    [i \in 1 .. (count \div AUDIO_FRAME_SIZE) |-> buf.accumulated_samples[i - 1]]

\* variant: the counter is never reset to 0
NextSeqNumber_NoWrap(seq_number) ==
    seq_number + 1

\* variant: the post-increment is lost
NextSeqNumber_Stuck(seq_number) ==
    seq_number

\* feature_ctx.seq_number++; if (feature_ctx.seq_number > 65535) seq_number = 0
NextSeqNumber(seq_number) ==
    IF seq_number + 1 > SEQ_MAX THEN 0 ELSE seq_number + 1

\* FeatureExtraction_ProcessBuffer: [result, pkt, seq_number after the call]
FeatureExtraction_ProcessBuffer(buf, ctx, flags) ==
    IF buf.sample_count = 0
    THEN [result |-> 0 - 1, pkt |-> ZeroPacket, seq_number |-> ctx.seq_number]
    ELSE [result |-> 0,
          pkt |-> [ZeroPacket EXCEPT
                     !.version = AUDIO_TELEMETRY_VERSION,
                     !.seq_number = ctx.seq_number % UINT16_RANGE,
                     !.timestamp_ms = buf.start_timestamp_ms,
                     !.status_flags = BitAnd(flags, 255),
                     !.error_count = BitAnd(ctx.error_count, 65535),
                     !.zcr_count = (buf.sample_count \div 2) % UINT16_RANGE,
                     !.features = [stats |-> BlocksRead(buf, buf.sample_count),
                                   fft |-> BlocksRead(buf, FFT_SIZE)]],
          seq_number |-> NextSeqNumber(ctx.seq_number)]

\* variant: packet_count++ whatever tx_queue_send returned
CountCycle_AlwaysCounted(ctx, result, status) ==
    [ctx EXCEPT !.packet_count = @ + 1]

\* the counters after a finished cycle: packet_count++ on a queued packet,
\* error_count++ on a full queue or a failed ProcessBuffer
CountCycle(ctx, result, status) ==
    IF result = 0 /\ status = "TX_SUCCESS"
    THEN [ctx EXCEPT !.packet_count = @ + 1]
    ELSE [ctx EXCEPT !.error_count = @ + 1]

\* variant: the accumulator is reset only after a successful enqueue
ResetAccumulator_OnSuccess(buf, flags, status) ==
    IF status = "TX_SUCCESS"
    THEN [buf |-> EmptyFeatureBuffer, flags |-> 0]
    ELSE [buf |-> buf, flags |-> flags]

\* variant: the buffer is cleared, the collected flags are kept
ResetAccumulator_KeepFlags(buf, flags, status) ==
    [buf |-> EmptyFeatureBuffer, flags |-> flags]

\* "Reset accumulator for next batch": [buf, flags] after a finished cycle
ResetAccumulator(buf, flags, status) ==
    [buf |-> EmptyFeatureBuffer, flags |-> 0]

(* ------------------------------------------------------------------ *)
(* Retained packet cache                                               *)
(* ------------------------------------------------------------------ *)
\* Telemetry_BufferInit on the zero-initialised static telemetry_buffer
EmptyTelemetryBuffer ==
    [packets |-> [i \in 0 .. TELEMETRY_MAX_PACKETS - 1 |-> ZeroPacket],
     write_index |-> 0, read_index |-> 0, packet_count |-> 0,
     mutex |-> "none"]

\* variant: a put on the full ring leaves read_index where it was
Telemetry_BufferPut_CubeIDE_ReadKept(buf, packet) ==
    [ret |-> 1,
     buf |-> [buf EXCEPT
                !.packets[buf.write_index] = packet,
                !.write_index = (buf.write_index + 1) % TELEMETRY_MAX_PACKETS,
                !.packet_count = IF @ < TELEMETRY_MAX_PACKETS THEN @ + 1 ELSE @]]

\* CubeIDE Telemetry_BufferPut: overwrite the oldest when full
Telemetry_BufferPut_CubeIDE(buf, packet) ==
    LET stored == [buf EXCEPT
                     !.packets[buf.write_index] = packet,
                     !.write_index = (buf.write_index + 1) % TELEMETRY_MAX_PACKETS]
    IN  [ret |-> 1,
         buf |-> IF buf.packet_count < TELEMETRY_MAX_PACKETS
                 THEN [stored EXCEPT !.packet_count = @ + 1]
                 ELSE [stored EXCEPT
                         !.read_index = (@ + 1) % TELEMETRY_MAX_PACKETS]]

\* Core Telemetry_BufferPut: store only while there is room
Telemetry_BufferPut_Core(buf, packet) ==
    IF buf.packet_count < TELEMETRY_MAX_PACKETS
    THEN [ret |-> 1,
          buf |-> [buf EXCEPT
                     !.packets[buf.write_index] = packet,
                     !.write_index = (buf.write_index + 1) % TELEMETRY_MAX_PACKETS,
                     !.packet_count = @ + 1]]
    ELSE [ret |-> 0, buf |-> buf]

\* Telemetry_BufferGet (Core): remove and return the oldest packet; `out` is
\* the caller's buffer before the call
Telemetry_BufferGet(buf, out) ==
    IF buf.packet_count > 0
    THEN [ret |-> 1,
          pkt |-> buf.packets[buf.read_index],
          buf |-> [buf EXCEPT
                     !.read_index = (buf.read_index + 1) % TELEMETRY_MAX_PACKETS,
                     !.packet_count = @ - 1]]
    ELSE [ret |-> 0, pkt |-> out, buf |-> buf]

\* the argument of Telemetry_GetLastPacket: a pointer to the caller's buffer,
\* whose content before the call is pkt, or NULL
OutBuffer(pkt) == [null |-> FALSE, pkt |-> pkt]
NullPointer(pkt) == [null |-> TRUE, pkt |-> pkt]

\* CubeIDE Telemetry_GetLastPacket: peek at write_index - 1
Telemetry_GetLastPacket_CubeIDE(initialized, buf, out) ==
    IF ~initialized \/ out.null THEN [ret |-> 0, pkt |-> out.pkt, buf |-> buf]
    ELSE IF buf.packet_count > 0
    THEN LET last_index == (buf.write_index + TELEMETRY_MAX_PACKETS - 1)
                               % TELEMETRY_MAX_PACKETS
         IN  [ret |-> 1, pkt |-> buf.packets[last_index], buf |-> buf]
    ELSE [ret |-> 0, pkt |-> out.pkt, buf |-> buf]

\* Core Telemetry_GetLastPacket: Telemetry_BufferGet
Telemetry_GetLastPacket_Core(initialized, buf, out) ==
    IF ~initialized \/ out.null THEN [ret |-> 0, pkt |-> out.pkt, buf |-> buf]
    ELSE Telemetry_BufferGet(buf, out.pkt)

\* variant: the copy is made whether or not a packet was ever cached
Telemetry_GetLastPacket_NetXDuo_Unchecked(valid, last_pkt, out) ==
    IF out.null THEN [ret |-> 0, pkt |-> out.pkt]
    ELSE [ret |-> 1, pkt |-> last_pkt]

\* NetXDuo Telemetry_GetLastPacket: copy of telemetry_last_pkt when valid
Telemetry_GetLastPacket_NetXDuo(valid, last_pkt, out) ==
    IF out.null \/ valid = 0 THEN [ret |-> 0, pkt |-> out.pkt]
    ELSE [ret |-> 1, pkt |-> last_pkt]

\* the first part of memcpy(&telemetry_last_pkt, &pkt, ...): the header bytes
\* of pkt are in place, the rest still holds the previous packet
CopyHeader(dst, src) ==
    [dst EXCEPT !.version = src.version,
                !.seq_number = src.seq_number,
                !.timestamp_ms = src.timestamp_ms]

(* ------------------------------------------------------------------ *)
(* Sequence numbering by the sender                                    *)
(* ------------------------------------------------------------------ *)
\* packet.seq_number = sequence_number++ : the value the field then holds.
\* CubeIDE is built with the packed record of audio_features.h (uint16_t
\* seq_number), Core with Core/Inc/app_telemetry.h (uint32_t seq_number).
StoreSeqNumber(b, counter) ==
    IF b = "CubeIDE" THEN counter % UINT16_RANGE ELSE counter

\* what the diagnostic surface reports (Telemetry_GetTxCount / GetErrorCount)
Telemetry_GetTxCount ==
    IF build = "NetXDuo" THEN telemetry_ctx.tx_count ELSE tx_count

Telemetry_GetErrorCount ==
    IF build = "NetXDuo" THEN telemetry_ctx.error_count ELSE error_count

\* Telemetry_IsReady() of the NetXDuo and CubeIDE modules
Telemetry_IsReady ==
    IF build = "NetXDuo" THEN telemetry_ctx.is_ready
    ELSE IF telemetry_started THEN 1 ELSE 0

(* ------------------------------------------------------------------ *)
(* The state of a system that has already run k cycles without loss    *)
(* ------------------------------------------------------------------ *)
\* the packet the extractor built in cycle i (frames 4i .. 4i+3, no flags)
BuiltPacket(i) ==
    LET buf == [accumulated_samples |->
                    [j \in 0 .. AUDIO_FRAMES_PER_PACKET - 1 |->
                        AUDIO_FRAMES_PER_PACKET * i + j],
                sample_count |-> AUDIO_SAMPLES_PER_PACKET,
                start_timestamp_ms |-> 0]
    IN  FeatureExtraction_ProcessBuffer(
            buf, [seq_number |-> i % UINT16_RANGE, error_count |-> 0], 0).pkt

\* the same packet as the sender of build b passed it on
SentPacket(b, i) ==
    IF b = "NetXDuo" THEN BuiltPacket(i)
    ELSE [BuiltPacket(i) EXCEPT !.seq_number = StoreSeqNumber(b, i)]

\* CubeIDE ring after k writes
RingAfter(k) ==
    [packets |-> [j \in 0 .. TELEMETRY_MAX_PACKETS - 1 |->
                    LET n == IF k % TELEMETRY_MAX_PACKETS > j
                             THEN k - (k % TELEMETRY_MAX_PACKETS) + j
                             ELSE k - (k % TELEMETRY_MAX_PACKETS) + j
                                    - TELEMETRY_MAX_PACKETS
                    IN  IF n >= 0 THEN SentPacket("CubeIDE", n) ELSE ZeroPacket],
     write_index |-> k % TELEMETRY_MAX_PACKETS,
     read_index |-> IF k >= TELEMETRY_MAX_PACKETS THEN k % TELEMETRY_MAX_PACKETS ELSE 0,
     packet_count |-> IF k >= TELEMETRY_MAX_PACKETS THEN TELEMETRY_MAX_PACKETS ELSE k,
     mutex |-> "none"]

\* Core ring after k calls of Telemetry_AddPacket and no read
CoreRingAfter(k) ==
    [packets |-> [j \in 0 .. TELEMETRY_MAX_PACKETS - 1 |->
                    IF j < k THEN SentPacket("Core", j) ELSE ZeroPacket],
     write_index |-> IF k >= TELEMETRY_MAX_PACKETS THEN 0 ELSE k,
     read_index |-> 0,
     packet_count |-> IF k >= TELEMETRY_MAX_PACKETS THEN TELEMETRY_MAX_PACKETS ELSE k,
     mutex |-> "none"]

\* the caller's buffer before any Telemetry_GetLastPacket wrote to it
UnwrittenBuffer == [ZeroPacket EXCEPT !.version = 0 - 1]

\* the extractor thread's local `frame` before the first tx_queue_receive
NoFrame == AudioFrame(ZeroBlock, 0)

\* the kernel and the network stack once the startup thread has seen an
\* address assigned at its first look (ip_seen records that it read a
\* non-zero IpAddress after its wait): no poll was needed, the extractor
\* thread is at its tx_queue_receive, no thread was suspended by another
AddressAssigned ==
    [IpAddress |-> IP_ADDRESS(192, 168, 1, 50), ip_seen |-> TRUE, wait_count |-> 0,
     fx_pc |-> "receive", fx_status |-> "none", frame |-> NoFrame,
     suspended |-> {}, suspensions |-> 0,
     resumed_at |-> [extractor |-> 0 - 1, sender |-> 0 - 1]]

\* the statics with the startup thread of a fresh system at `pc` and the
\* kernel and network stack as in `kernel`
InitAt(buf, kernel, pc) ==
    /\ build \in Builds
    /\ ran \in {0, NearWrap}
    /\ sys = kernel
    /\ start_pc = IF ran = 0 THEN pc ELSE "done"
    /\ frame_counter = AUDIO_FRAMES_PER_PACKET * ran
    /\ frame_queue = <<>>
    /\ feature_ctx = [is_running |-> IF ran = 0 THEN 0 ELSE 1,
                      packet_count |-> ran, error_count |-> 0,
                      seq_number |-> ran % UINT16_RANGE]
    /\ feature_buffer = buf
    /\ last_error_flags = 0
    /\ output_queue = <<>>
    /\ telemetry_ctx =
         IF build = "NetXDuo" /\ ran > 0
         THEN [is_ready |-> 1, is_running |-> 1, tx_count |-> ran, error_count |-> 0,
               receiver_ip |-> TELEMETRY_DEFAULT_IP_ADDR,
               receiver_port |-> TELEMETRY_UDP_PORT_RX, use_broadcast |-> 1]
         ELSE [is_ready |-> 0, is_running |-> 0, tx_count |-> 0, error_count |-> 0,
               receiver_ip |-> IF build = "CubeIDE" /\ ran > 0
                               THEN TELEMETRY_DEFAULT_IP_ADDR ELSE IP_NONE,
               receiver_port |-> 0, use_broadcast |-> 0]
    /\ telemetry_last_pkt =
         IF build = "NetXDuo" /\ ran > 0 THEN SentPacket(build, ran - 1) ELSE ZeroPacket
    /\ telemetry_last_pkt_valid = IF build = "NetXDuo" /\ ran > 0 THEN 1 ELSE 0
    /\ sequence_number = IF build = "NetXDuo" THEN 0 ELSE ran
    /\ tx_count = IF build = "CubeIDE" THEN ran ELSE 0
    /\ error_count = 0
    /\ telemetry_initialized = (build # "NetXDuo" /\ ran > 0)
    /\ telemetry_started = (build = "CubeIDE" /\ ran > 0)
    /\ telemetry_buffer = IF build = "CubeIDE" THEN RingAfter(ran)
                          ELSE IF build = "Core" THEN CoreRingAfter(ran)
                          ELSE EmptyTelemetryBuffer
    /\ tel_pc = IF build \in {"NetXDuo", "CubeIDE"} /\ ran > 0
                THEN "loop" ELSE "none"
    /\ tel_pkt = ZeroPacket
    /\ tel_status = "none"
    /\ udp_socket = IF ran = 0 THEN "none" ELSE "bound"
    /\ http_out = [ret |-> 0, pkt |-> UnwrittenBuffer, out_null |-> FALSE]
    /\ obs = [produced |-> 0, faults |-> 0, flagged |-> {}, reads |-> 0,
              received |-> AUDIO_FRAMES_PER_PACKET * ran,
              nbuilt |-> ran, built |-> <<>>, fx_errors |-> 0,
              dequeued |-> ran, q_errors |-> 0, handed |-> <<>>,
              sent |-> <<>>, start_ip |-> IP_NONE, calls |-> <<>>,
              measured |-> <<>>, copied |-> {},
              iter |-> [tx0 |-> 0, err0 |-> 0],
              last |-> [pkt |-> ZeroPacket, status |-> "none", tx0 |-> 0, err0 |-> 0]]

InitWith(buf) ==
    InitAt(buf, AddressAssigned, "init")

Init ==
    InitWith(EmptyFeatureBuffer)

(* ------------------------------------------------------------------ *)
(* FrameSource (audio acquisition; only its interface is in the tree)  *)
(* ------------------------------------------------------------------ *)
\* one frame of AUDIO_FRAME_SIZE samples is queued for the extractor
\* (recorded: whether the history keeps the flags given to each frame)
FrameSource_Queue(flagset, budget, frames, recorded) ==
    /\ start_pc \notin {"init", "init_error", "acq"}
    /\ obs.produced < frames
    /\ Len(frame_queue) < AUDIO_ACQ_QUEUE_DEPTH
    /\ Len(frame_queue) < MaxBacklog
    /\ \E flags \in flagset :
         /\ flags # 0 => obs.faults < budget
         /\ frame_queue' = Append(frame_queue, AudioFrame(frame_counter, flags))
         /\ obs' = [obs EXCEPT
                      !.produced = @ + 1,
                      !.faults = IF flags # 0 THEN @ + 1 ELSE @,
                      !.flagged = IF recorded /\ flags # 0
                                  THEN @ \cup {[frame |-> frame_counter,
                                                error_flags |-> flags]}
                                  ELSE @]
    /\ frame_counter' = frame_counter + 1
    /\ UNCHANGED <<build, ran, sys, start_pc, extractorVars, output_queue, senderVars,
                   http_out>>

\* a frame that is clean or has clipped
FrameSource_Produce ==
    FrameSource_Queue({0, AUDIO_ACQ_ERROR_CLIPPING}, MaxFaults, MaxFrames, FALSE)

\* a frame that is clean, has clipped or had a DMA error
FrameSource_ProduceFlagged ==
    FrameSource_Queue({0, AUDIO_ACQ_ERROR_DMA, AUDIO_ACQ_ERROR_CLIPPING},
                      MaxFlagged, MaxFlaggedFrames, TRUE)

\* a clean frame source that stops after two batches
FrameSource_ProduceClean ==
    FrameSource_Queue({0}, MaxFaults, MaxDestinationFrames, FALSE)

\* a frame source that stops after two batches
FrameSource_ProduceFew ==
    FrameSource_Queue({0, AUDIO_ACQ_ERROR_CLIPPING}, MaxFaults, MaxDiagnosticFrames,
                      FALSE)

(* ------------------------------------------------------------------ *)
(* App_Startup_Thread_Entry (app_threadx.c)                            *)
(* ------------------------------------------------------------------ *)
\* Telemetry_Init(...).  NetXDuo: the context is cleared and the sender thread
\* created suspended.  CubeIDE, Core: Telemetry_BufferInit and
\* telemetry_initialized = true.  A failed allocation (NetXDuo, CubeIDE) is
\* returned and the startup thread ends in Error_Handler().
Telemetry_Init ==
    /\ start_pc = "init"
    /\ \E ok \in IF build = "Core" THEN {TRUE} ELSE BOOLEAN :
         IF ok
         THEN /\ start_pc' = "acq"
              /\ telemetry_initialized' = (build # "NetXDuo")
              /\ telemetry_buffer' = IF build = "NetXDuo" THEN telemetry_buffer
                                     ELSE EmptyTelemetryBuffer
              /\ telemetry_ctx' = IF build = "NetXDuo"
                                  THEN [is_ready |-> 0, is_running |-> 0,
                                        tx_count |-> 0, error_count |-> 0,
                                        receiver_ip |-> TELEMETRY_DEFAULT_IP_ADDR,
                                        receiver_port |-> TELEMETRY_UDP_PORT_RX,
                                        use_broadcast |-> 1]
                                  ELSE telemetry_ctx
              /\ tel_pc' = IF build = "NetXDuo" THEN "loop" ELSE tel_pc
         ELSE /\ start_pc' = "init_error"
              /\ UNCHANGED <<telemetry_initialized, telemetry_buffer,
                             telemetry_ctx, tel_pc>>
    /\ UNCHANGED <<build, ran, sys, frame_counter, frame_queue, extractorVars,
                   output_queue, telemetry_last_pkt, telemetry_last_pkt_valid,
                   sequence_number, tx_count, error_count, telemetry_started,
                   tel_pkt, tel_status, udp_socket, http_out, obs>>

\* AudioAcquisition_Start()
AudioAcquisition_Start ==
    /\ start_pc = "acq"
    /\ start_pc' = "feat"
    /\ UNCHANGED <<build, ran, sys, frame_counter, frame_queue, extractorVars,
                   output_queue, senderVars, http_out, obs>>

\* FeatureExtraction_Start(audio_queue)
FeatureExtraction_Start ==
    /\ start_pc = "feat"
    /\ feature_ctx' = [feature_ctx EXCEPT !.is_running = 1]
    /\ start_pc' = "tel"
    /\ UNCHANGED <<build, ran, sys, frame_counter, frame_queue, feature_buffer,
                   last_error_flags, output_queue, senderVars, http_out, obs>>

\* Telemetry_Start stores its receiver_ip argument: NetXDuo unless it is 0,
\* CubeIDE always (receiver_ip_address, kept in the receiver_ip field here);
\* Core's Telemetry_Start(void) has no such argument
Telemetry_Start_StoreReceiver(b, ctx, receiver_ip) ==
    CASE b = "NetXDuo" ->
             IF receiver_ip # IP_NONE THEN [ctx EXCEPT !.receiver_ip = receiver_ip]
             ELSE ctx
      [] b = "CubeIDE" -> [ctx EXCEPT !.receiver_ip = receiver_ip]
      [] OTHER -> ctx

\* Telemetry_Start(feature_queue, receiver_ip): socket create and bind succeed
\* (recorded: whether the history keeps the address the call was given)
Telemetry_Start_Call(addresses, recorded) ==
    /\ start_pc = "tel"
    /\ udp_socket' = "bound"
    /\ \E receiver_ip \in addresses :
         LET stored == Telemetry_Start_StoreReceiver(build, telemetry_ctx, receiver_ip)
         IN  /\ CASE build = "NetXDuo" ->
                       /\ telemetry_ctx' = [stored EXCEPT !.is_ready = 1,
                                                          !.is_running = 1]
                       /\ start_pc' = "done"
                       /\ UNCHANGED tel_pc
                  [] build = "CubeIDE" ->
                       \* tx_thread_create(..., TX_AUTO_START): the thread may run
                       \* before telemetry_started is set
                       /\ telemetry_ctx' = stored
                       /\ tel_pc' = "loop"
                       /\ start_pc' = "tel_flag"
                  [] OTHER ->
                       /\ start_pc' = "done"
                       /\ UNCHANGED <<telemetry_ctx, tel_pc>>
             /\ obs' = IF recorded /\ build # "Core"
                       THEN [obs EXCEPT !.start_ip = receiver_ip]
                       ELSE obs
    /\ UNCHANGED <<build, ran, sys, frame_counter, frame_queue, extractorVars,
                   output_queue, telemetry_last_pkt, telemetry_last_pkt_valid,
                   sequence_number, tx_count, error_count, telemetry_initialized,
                   telemetry_started, telemetry_buffer, tel_pkt, tel_status,
                   http_out>>

\* Telemetry_Start(feature_queue, 0xFFFFFFFF), as App_Startup_Thread_Entry calls it
Telemetry_Start_Ok ==
    Telemetry_Start_Call({TELEMETRY_DEFAULT_IP_ADDR}, FALSE)

\* Telemetry_Start(feature_queue, receiver_ip) with the broadcast address or
\* the address of one receiver
Telemetry_Start_AnyAddress ==
    Telemetry_Start_Call({TELEMETRY_DEFAULT_IP_ADDR, IP_ADDRESS(192, 168, 1, 100)},
                         TRUE)

\* CubeIDE Telemetry_Start: telemetry_started = true
Telemetry_Start_SetStarted ==
    /\ start_pc = "tel_flag"
    /\ telemetry_started' = TRUE
    /\ start_pc' = "done"
    /\ UNCHANGED <<build, ran, sys, frame_counter, frame_queue, extractorVars,
                   output_queue, telemetry_ctx, telemetry_last_pkt,
                   telemetry_last_pkt_valid, sequence_number, tx_count, error_count,
                   telemetry_initialized, telemetry_buffer, tel_pc, tel_pkt,
                   tel_status, udp_socket, http_out, obs>>

\* Telemetry_Start: nx_udp_socket_create, nx_udp_socket_bind or (CubeIDE)
\* tx_thread_create fails; the status is returned and the startup thread ends
\* in Error_Handler().  NetXDuo and Core delete the socket after a failed bind.
\* Core's Telemetry_Start returns nothing, so its caller carries on.
Telemetry_Start_Fail ==
    /\ start_pc = "tel"
    /\ \E step \in {"create", "bind"} \cup
                      (IF build = "CubeIDE" THEN {"thread"} ELSE {}) :
         udp_socket' = CASE step = "create" -> "none"
                         [] step = "bind" -> IF build = "CubeIDE" THEN "created" ELSE "none"
                         [] OTHER -> "bound"
    /\ telemetry_ctx' = Telemetry_Start_StoreReceiver(build, telemetry_ctx,
                                                      TELEMETRY_DEFAULT_IP_ADDR)
    /\ start_pc' = IF build = "Core" THEN "done" ELSE "error"
    /\ UNCHANGED <<build, ran, sys, frame_counter, frame_queue, extractorVars,
                   output_queue, telemetry_last_pkt,
                   telemetry_last_pkt_valid, sequence_number, tx_count, error_count,
                   telemetry_initialized, telemetry_started, telemetry_buffer,
                   tel_pc, tel_pkt, tel_status, http_out, obs>>

(* ------------------------------------------------------------------ *)
(* FeatureExtraction_ThreadEntry: one iteration of while (1)           *)
(* ------------------------------------------------------------------ *)
\* tx_queue_receive returned TX_SUCCESS
FeatureExtraction_ReceiveFrame ==
    /\ feature_ctx.is_running = 1
    /\ frame_queue # <<>>
    /\ LET rx == tx_queue_receive(frame_queue)
           acc == AccumulateFrame(feature_buffer, last_error_flags, rx.msg)
       IN  /\ frame_queue' = rx.queue
           /\ IF BatchComplete(acc.buf.sample_count)
              THEN LET r == FeatureExtraction_ProcessBuffer(acc.buf, feature_ctx, acc.flags)
                       s == IF r.result = 0
                            THEN tx_queue_send(output_queue, FEATURE_EXTRACT_QUEUE_DEPTH, r.pkt)
                            ELSE [status |-> "none", queue |-> output_queue]
                       reset == ResetAccumulator(acc.buf, acc.flags, s.status)
                   IN  /\ output_queue' = s.queue
                       /\ feature_ctx' = CountCycle(
                              [feature_ctx EXCEPT !.seq_number = r.seq_number],
                              r.result, s.status)
                       /\ feature_buffer' = reset.buf
                       /\ last_error_flags' = reset.flags
                       /\ obs' = [obs EXCEPT
                                    !.received = @ + 1,
                                    !.nbuilt = IF r.result = 0 THEN @ + 1 ELSE @,
                                    !.built = IF r.result = 0
                                              THEN Append(@, [pkt |-> r.pkt,
                                                              samples |-> acc.buf.sample_count,
                                                              status |-> s.status])
                                              ELSE @]
              ELSE /\ feature_buffer' = acc.buf
                   /\ last_error_flags' = acc.flags
                   /\ obs' = [obs EXCEPT !.received = @ + 1]
                   /\ UNCHANGED <<feature_ctx, output_queue>>
    /\ UNCHANGED <<build, ran, sys, start_pc, frame_counter, senderVars, http_out>>

\* tx_queue_receive returned TX_QUEUE_EMPTY after the 100 ms wait
FeatureExtraction_ReceiveTimeout ==
    /\ feature_ctx.is_running = 1
    /\ frame_queue = <<>>
    /\ UNCHANGED vars

\* tx_queue_receive returned another status
FeatureExtraction_ReceiveError ==
    /\ feature_ctx.is_running = 1
    /\ obs.faults < MaxFaults
    /\ feature_ctx' = [feature_ctx EXCEPT !.error_count = @ + 1]
    /\ obs' = [obs EXCEPT !.fx_errors = @ + 1, !.faults = @ + 1]
    /\ UNCHANGED <<build, ran, sys, start_pc, frame_counter, frame_queue, feature_buffer,
                   last_error_flags, output_queue, senderVars, http_out>>

(* ------------------------------------------------------------------ *)
(* Telemetry_ThreadEntry, NetXDuo/App/app_telemetry.c                  *)
(* ------------------------------------------------------------------ *)
NetXDuo_Receive ==
    /\ build = "NetXDuo" /\ tel_pc = "loop"
    /\ telemetry_ctx.is_running = 1 /\ telemetry_ctx.is_ready = 1
    /\ output_queue # <<>>
    /\ LET rx == tx_queue_receive(output_queue)
       IN  /\ output_queue' = rx.queue
           /\ tel_pkt' = rx.msg
    /\ tel_pc' = "transmit"
    /\ obs' = [obs EXCEPT !.dequeued = @ + 1,
                          !.iter = [tx0 |-> Telemetry_GetTxCount,
                                    err0 |-> Telemetry_GetErrorCount]]
    /\ UNCHANGED <<build, ran, sys, start_pc, frame_counter, frame_queue, extractorVars,
                   telemetry_ctx, telemetry_last_pkt, telemetry_last_pkt_valid,
                   sequence_number, tx_count, error_count, telemetry_initialized,
                   telemetry_started, telemetry_buffer, tel_status, udp_socket,
                   http_out>>

\* tx_queue_receive returned TX_QUEUE_EMPTY after the 100 ms wait
NetXDuo_ReceiveTimeout ==
    /\ build = "NetXDuo" /\ tel_pc = "loop"
    /\ telemetry_ctx.is_running = 1 /\ telemetry_ctx.is_ready = 1
    /\ output_queue = <<>>
    /\ UNCHANGED vars

\* tx_queue_receive returned another status
NetXDuo_ReceiveError ==
    /\ build = "NetXDuo" /\ tel_pc = "loop"
    /\ telemetry_ctx.is_running = 1 /\ telemetry_ctx.is_ready = 1
    /\ obs.faults < MaxFaults
    /\ telemetry_ctx' = [telemetry_ctx EXCEPT !.error_count = @ + 1]
    /\ obs' = [obs EXCEPT !.q_errors = @ + 1, !.faults = @ + 1]
    /\ UNCHANGED <<build, ran, sys, start_pc, frame_counter, frame_queue, extractorVars,
                   output_queue, telemetry_last_pkt, telemetry_last_pkt_valid,
                   sequence_number, tx_count, error_count, telemetry_initialized,
                   telemetry_started, telemetry_buffer, tel_pc, tel_pkt, tel_status,
                   udp_socket, http_out>>

\* Telemetry_TransmitPacket(&pkt): [status, ctx] for each way the call can end
Telemetry_TransmitPacket(ctx, outcome) ==
    CASE outcome = "alloc_fail" ->
             [status |-> "NX_NO_PACKET", ctx |-> [ctx EXCEPT !.error_count = @ + 1]]
      [] outcome = "send_fail" -> [status |-> "NX_NOT_SUCCESSFUL", ctx |-> ctx]
      [] OTHER -> [status |-> "NX_SUCCESS", ctx |-> ctx]

\* variant: the destination address is used whatever the broadcast flag
Telemetry_Destination_Unicast(ctx) ==
    [ip |-> ctx.receiver_ip, port |-> ctx.receiver_port]

\* Telemetry_TransmitPacket: the address and port given to nx_udp_socket_send
Telemetry_Destination(ctx) ==
    IF ctx.use_broadcast # 0
    THEN [ip |-> IP_ADDRESS(255, 255, 255, 255), port |-> ctx.receiver_port]
    ELSE [ip |-> ctx.receiver_ip, port |-> ctx.receiver_port]

\* status = Telemetry_TransmitPacket(&pkt)
\* (recorded: whether the history keeps the destination of each datagram)
NetXDuo_Transmit_Call(recorded) ==
    /\ build = "NetXDuo" /\ tel_pc = "transmit"
    /\ \E outcome \in {"ok", "alloc_fail", "send_fail"} :
         LET t == Telemetry_TransmitPacket(telemetry_ctx, outcome)
         IN  /\ outcome # "ok" => obs.faults < MaxFaults
             /\ telemetry_ctx' = t.ctx
             /\ tel_status' = t.status
             /\ obs' = [obs EXCEPT !.handed = Append(@, tel_pkt),
                                   !.faults = IF outcome # "ok" THEN @ + 1 ELSE @,
                                   !.sent = IF recorded /\ outcome # "alloc_fail"
                                            THEN Append(@, Telemetry_Destination(telemetry_ctx))
                                            ELSE @]
    /\ tel_pc' = "cache"
    /\ UNCHANGED <<build, ran, sys, start_pc, frame_counter, frame_queue, extractorVars,
                   output_queue, telemetry_last_pkt, telemetry_last_pkt_valid,
                   sequence_number, tx_count, error_count, telemetry_initialized,
                   telemetry_started, telemetry_buffer, tel_pkt, udp_socket, http_out>>

NetXDuo_Transmit ==
    NetXDuo_Transmit_Call(FALSE)

\* the same call, with the destination of the datagram kept
NetXDuo_TransmitTo ==
    NetXDuo_Transmit_Call(TRUE)

\* Telemetry_SetReceiver(ip_addr, port): TX_PTR_ERROR for an address of 0
Telemetry_SetReceiver(ctx, ip_addr, port) ==
    IF ip_addr = IP_NONE THEN ctx
    ELSE [ctx EXCEPT !.receiver_ip = ip_addr, !.receiver_port = port]

\* Telemetry_SetBroadcast(enable)
Telemetry_SetBroadcast(ctx, enable) ==
    [ctx EXCEPT !.use_broadcast = enable]

\* a thread calls Telemetry_SetReceiver
Telemetry_SetReceiver_Call ==
    /\ build = "NetXDuo"
    /\ start_pc \notin {"init", "init_error"}
    /\ Len(obs.calls) < MaxReconfigurations
    /\ \E ip_addr \in {IP_NONE, IP_ADDRESS(192, 168, 1, 100)},
          port \in {TELEMETRY_UDP_PORT_RX, TELEMETRY_UDP_PORT_TX} :
         /\ telemetry_ctx' = Telemetry_SetReceiver(telemetry_ctx, ip_addr, port)
         /\ obs' = [obs EXCEPT !.calls = Append(@, [fn |-> "Telemetry_SetReceiver",
                                                    ip_addr |-> ip_addr,
                                                    port |-> port])]
    /\ UNCHANGED <<build, ran, sys, start_pc, frame_counter, frame_queue, extractorVars,
                   output_queue, telemetry_last_pkt, telemetry_last_pkt_valid,
                   sequence_number, tx_count, error_count, telemetry_initialized,
                   telemetry_started, telemetry_buffer, tel_pc, tel_pkt, tel_status,
                   udp_socket, http_out>>

\* a thread calls Telemetry_SetBroadcast
Telemetry_SetBroadcast_Call ==
    /\ build = "NetXDuo"
    /\ start_pc \notin {"init", "init_error"}
    /\ Len(obs.calls) < MaxReconfigurations
    /\ \E enable \in {0, 1} :
         /\ telemetry_ctx' = Telemetry_SetBroadcast(telemetry_ctx, enable)
         /\ obs' = [obs EXCEPT !.calls = Append(@, [fn |-> "Telemetry_SetBroadcast",
                                                    enable |-> enable])]
    /\ UNCHANGED <<build, ran, sys, start_pc, frame_counter, frame_queue, extractorVars,
                   output_queue, telemetry_last_pkt, telemetry_last_pkt_valid,
                   sequence_number, tx_count, error_count, telemetry_initialized,
                   telemetry_started, telemetry_buffer, tel_pc, tel_pkt, tel_status,
                   udp_socket, http_out>>

\* memcpy(&telemetry_last_pkt, &pkt, ...) under way: it takes no lock, so the
\* diagnostic reader can run when only the first bytes are copied
NetXDuo_CacheCopyBegin ==
    /\ build = "NetXDuo" /\ tel_pc = "cache"
    /\ telemetry_last_pkt' = CopyHeader(telemetry_last_pkt, tel_pkt)
    /\ tel_pc' = "cache_rest"
    /\ UNCHANGED <<build, ran, sys, start_pc, frame_counter, frame_queue, extractorVars,
                   output_queue, telemetry_ctx, telemetry_last_pkt_valid,
                   sequence_number, tx_count, error_count, telemetry_initialized,
                   telemetry_started, telemetry_buffer, tel_pkt, tel_status,
                   udp_socket, http_out, obs>>

\* variant: every transmit is counted as sent
NetXDuo_CountTransmit_AlwaysSent(ctx, status) ==
    [ctx EXCEPT !.tx_count = @ + 1]

\* the counters after the transmit: tx_count++ on NX_SUCCESS, else error_count++
NetXDuo_CountTransmit(ctx, status) ==
    IF status = "NX_SUCCESS"
    THEN [ctx EXCEPT !.tx_count = @ + 1]
    ELSE [ctx EXCEPT !.error_count = @ + 1]

\* the memcpy completes; telemetry_last_pkt_valid = 1; the counters
NetXDuo_CacheCopyEnd ==
    /\ build = "NetXDuo" /\ tel_pc = "cache_rest"
    /\ telemetry_last_pkt' = tel_pkt
    /\ telemetry_last_pkt_valid' = 1
    /\ telemetry_ctx' = NetXDuo_CountTransmit(telemetry_ctx, tel_status)
    /\ tel_pc' = "loop"
    /\ obs' = [obs EXCEPT !.last = [pkt |-> tel_pkt, status |-> tel_status,
                                   tx0 |-> obs.iter.tx0, err0 |-> obs.iter.err0]]
    /\ UNCHANGED <<build, ran, sys, start_pc, frame_counter, frame_queue, extractorVars,
                   output_queue, sequence_number, tx_count, error_count,
                   telemetry_initialized, telemetry_started, telemetry_buffer,
                   tel_pkt, tel_status, udp_socket, http_out>>

(* ------------------------------------------------------------------ *)
(* Telemetry_ThreadEntry, STM32CubeIDE/.../app_telemetry.c             *)
(* ------------------------------------------------------------------ *)
\* tx_queue_receive returned TX_SUCCESS; packet.seq_number = sequence_number++
CubeIDE_Receive ==
    /\ build = "CubeIDE" /\ tel_pc = "loop"
    /\ output_queue # <<>>
    /\ LET rx == tx_queue_receive(output_queue)
       IN  /\ output_queue' = rx.queue
           /\ tel_pkt' = [rx.msg EXCEPT !.seq_number = StoreSeqNumber(build, sequence_number)]
    /\ sequence_number' = sequence_number + 1
    /\ tel_pc' = "transmit"
    /\ obs' = [obs EXCEPT !.dequeued = @ + 1,
                          !.iter = [tx0 |-> Telemetry_GetTxCount,
                                    err0 |-> Telemetry_GetErrorCount]]
    /\ UNCHANGED <<build, ran, sys, start_pc, frame_counter, frame_queue, extractorVars,
                   telemetry_ctx, telemetry_last_pkt, telemetry_last_pkt_valid,
                   tx_count, error_count, telemetry_initialized, telemetry_started,
                   telemetry_buffer, tel_status, udp_socket, http_out>>

\* tx_queue_receive returned TX_QUEUE_EMPTY after the 500 ms wait
CubeIDE_ReceiveTimeout ==
    /\ build = "CubeIDE" /\ tel_pc = "loop"
    /\ output_queue = <<>>
    /\ UNCHANGED vars

\* tx_queue_receive returned another status
CubeIDE_ReceiveError ==
    /\ build = "CubeIDE" /\ tel_pc = "loop"
    /\ obs.faults < MaxFaults
    /\ error_count' = error_count + 1
    /\ obs' = [obs EXCEPT !.q_errors = @ + 1, !.faults = @ + 1]
    /\ UNCHANGED <<build, ran, sys, start_pc, frame_counter, frame_queue, extractorVars,
                   output_queue, telemetry_ctx, telemetry_last_pkt,
                   telemetry_last_pkt_valid, sequence_number, tx_count,
                   telemetry_initialized, telemetry_started, telemetry_buffer,
                   tel_pc, tel_pkt, tel_status, udp_socket, http_out>>

\* Telemetry_SendUDP(&packet): the status for each way the call can end
Telemetry_SendUDP(started, outcome) ==
    IF ~started THEN "NX_NOT_ENABLED"
    ELSE CASE outcome = "alloc_fail" -> "NX_NO_PACKET"
           [] outcome = "append_fail" -> "NX_SIZE_ERROR"
           [] outcome = "send_fail" -> "NX_NOT_SUCCESSFUL"
           [] OTHER -> "NX_SUCCESS"

\* Telemetry_SendUDP: the address and port given to nx_udp_socket_send
Telemetry_SendUDP_Destination(b) ==
    [ip |-> IP_ADDRESS(255, 255, 255, 255), port |-> TELEMETRY_UDP_PORT(b)]

\* if (Telemetry_SendUDP(&packet) == NX_SUCCESS) tx_count++; else error_count++;
\* (recorded: whether the history keeps the destination of each datagram)
CubeIDE_Transmit_Call(recorded) ==
    /\ build = "CubeIDE" /\ tel_pc = "transmit"
    /\ \E outcome \in {"ok", "alloc_fail", "append_fail", "send_fail"} :
         LET status == Telemetry_SendUDP(telemetry_started, outcome)
         IN  /\ outcome # "ok" => obs.faults < MaxFaults
             /\ tel_status' = status
             /\ tx_count' = IF status = "NX_SUCCESS" THEN tx_count + 1 ELSE tx_count
             /\ error_count' = IF status = "NX_SUCCESS" THEN error_count
                               ELSE error_count + 1
             /\ obs' = [obs EXCEPT !.handed = Append(@, tel_pkt),
                                   !.faults = IF outcome # "ok" THEN @ + 1 ELSE @,
                                   !.sent = IF recorded /\ status \in {"NX_SUCCESS",
                                                                     "NX_NOT_SUCCESSFUL"}
                                            THEN Append(@, Telemetry_SendUDP_Destination(build))
                                            ELSE @]
    /\ tel_pc' = "put"
    /\ UNCHANGED <<build, ran, sys, start_pc, frame_counter, frame_queue, extractorVars,
                   output_queue, telemetry_ctx, telemetry_last_pkt,
                   telemetry_last_pkt_valid, sequence_number, telemetry_initialized,
                   telemetry_started, telemetry_buffer, tel_pkt, udp_socket, http_out>>

CubeIDE_Transmit ==
    CubeIDE_Transmit_Call(FALSE)

\* the same call, with the destination of the datagram kept
CubeIDE_TransmitTo ==
    CubeIDE_Transmit_Call(TRUE)

\* Telemetry_BufferPut(&packet), under telemetry_buffer.mutex
CubeIDE_BufferPut ==
    /\ build = "CubeIDE" /\ tel_pc = "put"
    /\ telemetry_buffer' = Telemetry_BufferPut_CubeIDE(telemetry_buffer, tel_pkt).buf
    /\ tel_pc' = "loop"
    /\ obs' = [obs EXCEPT !.last = [pkt |-> tel_pkt, status |-> tel_status,
                                   tx0 |-> obs.iter.tx0, err0 |-> obs.iter.err0]]
    /\ UNCHANGED <<build, ran, sys, start_pc, frame_counter, frame_queue, extractorVars,
                   output_queue, telemetry_ctx, telemetry_last_pkt,
                   telemetry_last_pkt_valid, sequence_number, tx_count, error_count,
                   telemetry_initialized, telemetry_started, tel_pkt, tel_status,
                   udp_socket, http_out>>

(* ------------------------------------------------------------------ *)
(* Telemetry_AddPacket, Core/Src/app_telemetry.c                       *)
(* ------------------------------------------------------------------ *)
\* Telemetry_AddPacket(packet): its caller passes the packets of feature
\* extraction, oldest first.  The transmit takes place between the numbering
\* and the Telemetry_BufferPut, whose result is returned.
Telemetry_AddPacket ==
    /\ build = "Core" /\ telemetry_initialized
    /\ output_queue # <<>>
    /\ LET rx == tx_queue_receive(output_queue)
           pkt == [rx.msg EXCEPT !.seq_number = StoreSeqNumber(build, sequence_number)]
           put == Telemetry_BufferPut_Core(telemetry_buffer, pkt)
       IN  /\ output_queue' = rx.queue
           /\ tel_pkt' = pkt
           /\ telemetry_buffer' = put.buf
           /\ \E outcome \in {"ok", "alloc_fail", "append_fail"} :
                /\ outcome # "ok" => obs.faults < MaxFaults
                /\ tel_status' = outcome
                /\ obs' = [obs EXCEPT
                             !.dequeued = @ + 1,
                             !.faults = IF outcome # "ok" THEN @ + 1 ELSE @,
                             !.handed = Append(@, pkt),
                             !.last = [pkt |-> pkt, status |-> outcome,
                                       tx0 |-> 0, err0 |-> 0]]
    /\ sequence_number' = sequence_number + 1
    /\ UNCHANGED <<build, ran, sys, start_pc, frame_counter, frame_queue, extractorVars,
                   telemetry_ctx, telemetry_last_pkt, telemetry_last_pkt_valid,
                   tx_count, error_count, telemetry_initialized, telemetry_started,
                   tel_pc, udp_socket, http_out>>

(* ------------------------------------------------------------------ *)
(* Diagnostic consumer                                                 *)
(* ------------------------------------------------------------------ *)
\* Telemetry_Init has returned successfully
Initialised == start_pc \notin {"init", "init_error"}

\* no write to the cache has completed, before or since the initial state
NeverWritten == ran = 0 /\ obs.last.status = "none"

\* Telemetry_GetLastPacket(out) of the linked sender module, for out drawn
\* from pointers
Telemetry_GetLastPacket_Call(pointers) ==
    /\ obs.reads < MaxReads
    /\ \E out \in pointers :
         LET r == CASE build = "NetXDuo" ->
                         [buf |-> telemetry_buffer] @@
                         Telemetry_GetLastPacket_NetXDuo(
                             telemetry_last_pkt_valid, telemetry_last_pkt, out)
                    [] build = "CubeIDE" ->
                         Telemetry_GetLastPacket_CubeIDE(
                             telemetry_initialized, telemetry_buffer, out)
                    [] OTHER ->
                         Telemetry_GetLastPacket_Core(
                             telemetry_initialized, telemetry_buffer, out)
         IN  /\ http_out' = [ret |-> r.ret, pkt |-> r.pkt, out_null |-> out.null]
             /\ telemetry_buffer' = r.buf
    /\ obs' = [obs EXCEPT !.reads = @ + 1]
    /\ UNCHANGED <<build, ran, sys, start_pc, frame_counter, frame_queue, extractorVars,
                   output_queue, telemetry_ctx, telemetry_last_pkt,
                   telemetry_last_pkt_valid, sequence_number, tx_count, error_count,
                   telemetry_initialized, telemetry_started, tel_pc, tel_pkt,
                   tel_status, udp_socket>>

\* the HTTP server's call, with its own buffer
Telemetry_GetLastPacket ==
    Telemetry_GetLastPacket_Call({OutBuffer(http_out.pkt)})

\* a call by any caller: out may be NULL
Telemetry_GetLastPacket_AnyPointer ==
    Telemetry_GetLastPacket_Call({OutBuffer(http_out.pkt), NullPointer(http_out.pkt)})


(* ------------------------------------------------------------------ *)
(* Specification                                                       *)
(* ------------------------------------------------------------------ *)
Next ==
    \/ FrameSource_Produce
    \/ Telemetry_Init
    \/ AudioAcquisition_Start
    \/ FeatureExtraction_Start
    \/ Telemetry_Start_Ok
    \/ Telemetry_Start_SetStarted
    \/ Telemetry_Start_Fail
    \/ FeatureExtraction_ReceiveFrame
    \/ FeatureExtraction_ReceiveTimeout
    \/ FeatureExtraction_ReceiveError
    \/ NetXDuo_Receive
    \/ NetXDuo_ReceiveTimeout
    \/ NetXDuo_ReceiveError
    \/ NetXDuo_Transmit
    \/ NetXDuo_CacheCopyBegin
    \/ NetXDuo_CacheCopyEnd
    \/ CubeIDE_Receive
    \/ CubeIDE_ReceiveTimeout
    \/ CubeIDE_ReceiveError
    \/ CubeIDE_Transmit
    \/ CubeIDE_BufferPut
    \/ Telemetry_AddPacket
    \/ Telemetry_GetLastPacket

Spec == Init /\ [][Next]_vars

(* ------------------------------------------------------------------ *)
(* The cache accesses step by step: tx_mutex_get, access, tx_mutex_put *)
(* ------------------------------------------------------------------ *)
\* tx_mutex_get(&telemetry_buffer.mutex, TX_WAIT_FOREVER) by thread t returns
tx_mutex_get(buf, t) == [buf EXCEPT !.mutex = t]

\* tx_mutex_put(&telemetry_buffer.mutex)
tx_mutex_put(buf) == [buf EXCEPT !.mutex = "none"]

\* Core Telemetry_AddPacket up to its call of Telemetry_BufferPut: the packet
\* is numbered and transmitted
Telemetry_AddPacket_Send ==
    /\ build = "Core" /\ telemetry_initialized /\ tel_pc = "none"
    /\ output_queue # <<>>
    /\ LET rx == tx_queue_receive(output_queue)
           pkt == [rx.msg EXCEPT !.seq_number = StoreSeqNumber(build, sequence_number)]
       IN  /\ output_queue' = rx.queue
           /\ tel_pkt' = pkt
           /\ \E outcome \in {"ok", "alloc_fail", "append_fail"} :
                /\ outcome # "ok" => obs.faults < MaxFaults
                /\ tel_status' = outcome
                /\ obs' = [obs EXCEPT
                             !.dequeued = @ + 1,
                             !.faults = IF outcome # "ok" THEN @ + 1 ELSE @,
                             !.handed = Append(@, pkt)]
    /\ sequence_number' = sequence_number + 1
    /\ tel_pc' = "put"
    /\ UNCHANGED <<build, ran, sys, start_pc, frame_counter, frame_queue, extractorVars,
                   telemetry_ctx, telemetry_last_pkt, telemetry_last_pkt_valid,
                   tx_count, error_count, telemetry_initialized, telemetry_started,
                   telemetry_buffer, udp_socket, http_out>>

\* Telemetry_BufferPut (CubeIDE, Core): tx_mutex_get returns
Telemetry_BufferPut_Lock ==
    /\ build \in {"CubeIDE", "Core"} /\ tel_pc = "put"
    /\ telemetry_buffer.mutex = "none"
    /\ telemetry_buffer' = tx_mutex_get(telemetry_buffer, "sender")
    /\ tel_pc' = "put_locked"
    /\ UNCHANGED <<build, ran, sys, start_pc, frame_counter, frame_queue, extractorVars,
                   output_queue, telemetry_ctx, telemetry_last_pkt,
                   telemetry_last_pkt_valid, sequence_number, tx_count, error_count,
                   telemetry_initialized, telemetry_started, tel_pkt, tel_status,
                   udp_socket, http_out, obs>>

\* Telemetry_BufferPut (CubeIDE, Core): the store and tx_mutex_put
Telemetry_BufferPut_Store ==
    /\ build \in {"CubeIDE", "Core"} /\ tel_pc = "put_locked"
    /\ telemetry_buffer' =
         tx_mutex_put(IF build = "CubeIDE"
                      THEN Telemetry_BufferPut_CubeIDE(telemetry_buffer, tel_pkt).buf
                      ELSE Telemetry_BufferPut_Core(telemetry_buffer, tel_pkt).buf)
    /\ tel_pc' = IF build = "CubeIDE" THEN "loop" ELSE "none"
    /\ obs' = [obs EXCEPT !.last = [pkt |-> tel_pkt, status |-> tel_status,
                                   tx0 |-> obs.iter.tx0, err0 |-> obs.iter.err0]]
    /\ UNCHANGED <<build, ran, sys, start_pc, frame_counter, frame_queue, extractorVars,
                   output_queue, telemetry_ctx, telemetry_last_pkt,
                   telemetry_last_pkt_valid, sequence_number, tx_count, error_count,
                   telemetry_initialized, telemetry_started, tel_pkt, tel_status,
                   udp_socket, http_out>>

\* Telemetry_GetLastPacket where it takes no lock: the NetXDuo module, and the
\* early return of CubeIDE and Core (not initialised, or NULL)
Telemetry_GetLastPacket_NoLock ==
    /\ Telemetry_GetLastPacket
    /\ build = "NetXDuo" \/ ~telemetry_initialized

\* Telemetry_GetLastPacket (CubeIDE, Core), past the early return:
\* tx_mutex_get returns
Telemetry_GetLastPacket_Lock ==
    /\ build \in {"CubeIDE", "Core"} /\ telemetry_initialized
    /\ obs.reads < MaxReads
    /\ telemetry_buffer.mutex = "none"
    /\ telemetry_buffer' = tx_mutex_get(telemetry_buffer, "reader")
    /\ UNCHANGED <<build, ran, sys, start_pc, frame_counter, frame_queue, extractorVars,
                   output_queue, telemetry_ctx, telemetry_last_pkt,
                   telemetry_last_pkt_valid, sequence_number, tx_count, error_count,
                   telemetry_initialized, telemetry_started, tel_pc, tel_pkt,
                   tel_status, udp_socket, http_out, obs>>

\* Telemetry_GetLastPacket (CubeIDE, Core): the copy and tx_mutex_put
Telemetry_GetLastPacket_Copy ==
    /\ build \in {"CubeIDE", "Core"}
    /\ telemetry_buffer.mutex = "reader"
    /\ LET r == IF build = "CubeIDE"
                THEN Telemetry_GetLastPacket_CubeIDE(
                         telemetry_initialized, telemetry_buffer, OutBuffer(http_out.pkt))
                ELSE Telemetry_GetLastPacket_Core(
                         telemetry_initialized, telemetry_buffer, OutBuffer(http_out.pkt))
       IN  /\ http_out' = [ret |-> r.ret, pkt |-> r.pkt, out_null |-> FALSE]
           /\ telemetry_buffer' = tx_mutex_put(r.buf)
    /\ obs' = [obs EXCEPT !.reads = @ + 1]
    /\ UNCHANGED <<build, ran, sys, start_pc, frame_counter, frame_queue, extractorVars,
                   output_queue, telemetry_ctx, telemetry_last_pkt,
                   telemetry_last_pkt_valid, sequence_number, tx_count, error_count,
                   telemetry_initialized, telemetry_started, tel_pc, tel_pkt,
                   tel_status, udp_socket>>

NextCacheLock ==
    \/ FrameSource_Produce
    \/ Telemetry_Init
    \/ AudioAcquisition_Start
    \/ FeatureExtraction_Start
    \/ Telemetry_Start_Ok
    \/ Telemetry_Start_SetStarted
    \/ Telemetry_Start_Fail
    \/ FeatureExtraction_ReceiveFrame
    \/ FeatureExtraction_ReceiveTimeout
    \/ FeatureExtraction_ReceiveError
    \/ NetXDuo_Receive
    \/ NetXDuo_ReceiveTimeout
    \/ NetXDuo_ReceiveError
    \/ NetXDuo_Transmit
    \/ NetXDuo_CacheCopyBegin
    \/ NetXDuo_CacheCopyEnd
    \/ CubeIDE_Receive
    \/ CubeIDE_ReceiveTimeout
    \/ CubeIDE_ReceiveError
    \/ CubeIDE_Transmit
    \/ Telemetry_AddPacket_Send
    \/ Telemetry_BufferPut_Lock
    \/ Telemetry_BufferPut_Store
    \/ Telemetry_GetLastPacket_NoLock
    \/ Telemetry_GetLastPacket_Lock
    \/ Telemetry_GetLastPacket_Copy

SpecCacheLock == Init /\ [][NextCacheLock]_vars

(* ------------------------------------------------------------------ *)
(* The sender threads while the transport's packet pool stays empty    *)
(* ------------------------------------------------------------------ *)
\* NetXDuo Telemetry_TransmitPacket: nx_packet_allocate(..., TX_WAIT_FOREVER)
\* on an empty pool does not return; the thread stays suspended in the call
NetXDuo_Transmit_PoolExhausted ==
    /\ build = "NetXDuo" /\ tel_pc = "transmit"
    /\ UNCHANGED vars

\* CubeIDE Telemetry_SendUDP: nx_packet_allocate(..., 100) on an empty pool
\* returns NX_NO_PACKET after 100 ticks; error_count++
CubeIDE_Transmit_PoolExhausted ==
    /\ build = "CubeIDE" /\ tel_pc = "transmit"
    /\ tel_status' = Telemetry_SendUDP(telemetry_started, "alloc_fail")
    /\ error_count' = error_count + 1
    /\ obs' = [obs EXCEPT !.handed = Append(@, tel_pkt)]
    /\ tel_pc' = "put"
    /\ UNCHANGED <<build, ran, sys, start_pc, frame_counter, frame_queue, extractorVars,
                   output_queue, telemetry_ctx, telemetry_last_pkt,
                   telemetry_last_pkt_valid, sequence_number, tx_count,
                   telemetry_initialized, telemetry_started, telemetry_buffer,
                   tel_pkt, udp_socket, http_out>>

\* the builds that run a sender thread
InitPoolExhausted == Init /\ build \in {"NetXDuo", "CubeIDE"}

\* the steps of Telemetry_ThreadEntry
SenderThreadPoolExhausted ==
    \/ NetXDuo_Receive
    \/ NetXDuo_ReceiveTimeout
    \/ NetXDuo_ReceiveError
    \/ NetXDuo_Transmit_PoolExhausted
    \/ CubeIDE_Receive
    \/ CubeIDE_ReceiveTimeout
    \/ CubeIDE_ReceiveError
    \/ CubeIDE_Transmit_PoolExhausted
    \/ CubeIDE_BufferPut

NextPoolExhausted ==
    \/ FrameSource_Produce
    \/ Telemetry_Init
    \/ AudioAcquisition_Start
    \/ FeatureExtraction_Start
    \/ Telemetry_Start_Ok
    \/ Telemetry_Start_SetStarted
    \/ Telemetry_Start_Fail
    \/ FeatureExtraction_ReceiveFrame
    \/ FeatureExtraction_ReceiveTimeout
    \/ FeatureExtraction_ReceiveError
    \/ SenderThreadPoolExhausted
    \/ Telemetry_GetLastPacket

\* the sender thread is scheduled whenever it can run
SpecPoolExhausted ==
    /\ InitPoolExhausted
    /\ [][NextPoolExhausted]_vars
    /\ WF_vars(SenderThreadPoolExhausted)

(* ------------------------------------------------------------------ *)
(* The extractor fed by a frame source that flags frames               *)
(* ------------------------------------------------------------------ *)
\* Telemetry_AddPacket of the Core module drains PacketQueue
InitFlagged == Init /\ build = "Core"

NextFlagged ==
    \/ FrameSource_ProduceFlagged
    \/ Telemetry_Init
    \/ AudioAcquisition_Start
    \/ FeatureExtraction_Start
    \/ Telemetry_Start_Ok
    \/ Telemetry_Start_Fail
    \/ FeatureExtraction_ReceiveFrame
    \/ FeatureExtraction_ReceiveTimeout
    \/ FeatureExtraction_ReceiveError
    \/ Telemetry_AddPacket

SpecFlagged == InitFlagged /\ [][NextFlagged]_vars

(* ------------------------------------------------------------------ *)
(* The senders with a start address and a destination that can be      *)
(* reconfigured                                                        *)
(* ------------------------------------------------------------------ *)
InitDestination ==
    Init /\ build \in {"NetXDuo", "CubeIDE"}

NextDestination ==
    \/ FrameSource_ProduceClean
    \/ Telemetry_Init
    \/ AudioAcquisition_Start
    \/ FeatureExtraction_Start
    \/ Telemetry_Start_AnyAddress
    \/ Telemetry_Start_SetStarted
    \/ FeatureExtraction_ReceiveFrame
    \/ FeatureExtraction_ReceiveTimeout
    \/ NetXDuo_Receive
    \/ NetXDuo_ReceiveTimeout
    \/ NetXDuo_TransmitTo
    \/ NetXDuo_CacheCopyBegin
    \/ NetXDuo_CacheCopyEnd
    \/ CubeIDE_Receive
    \/ CubeIDE_ReceiveTimeout
    \/ CubeIDE_TransmitTo
    \/ CubeIDE_BufferPut
    \/ Telemetry_SetReceiver_Call
    \/ Telemetry_SetBroadcast_Call

SpecDestination == InitDestination /\ [][NextDestination]_vars

(* ------------------------------------------------------------------ *)
(* The diagnostic call with any argument                               *)
(* ------------------------------------------------------------------ *)
NextDiagnostic ==
    \/ FrameSource_ProduceFew
    \/ Telemetry_Init
    \/ AudioAcquisition_Start
    \/ FeatureExtraction_Start
    \/ Telemetry_Start_Ok
    \/ Telemetry_Start_SetStarted
    \/ Telemetry_Start_Fail
    \/ FeatureExtraction_ReceiveFrame
    \/ FeatureExtraction_ReceiveTimeout
    \/ FeatureExtraction_ReceiveError
    \/ NetXDuo_Receive
    \/ NetXDuo_ReceiveTimeout
    \/ NetXDuo_ReceiveError
    \/ NetXDuo_Transmit
    \/ NetXDuo_CacheCopyBegin
    \/ NetXDuo_CacheCopyEnd
    \/ CubeIDE_Receive
    \/ CubeIDE_ReceiveTimeout
    \/ CubeIDE_ReceiveError
    \/ CubeIDE_Transmit
    \/ CubeIDE_BufferPut
    \/ Telemetry_AddPacket
    \/ Telemetry_GetLastPacket_AnyPointer

SpecDiagnostic == Init /\ [][NextDiagnostic]_vars

(* ------------------------------------------------------------------ *)
(* Observations used by the properties                                 *)
(* ------------------------------------------------------------------ *)
\* a + 1 in a 16-bit sequence field
SeqSucc(n) == (n + 1) % UINT16_RANGE

\* the packets built since the initial state that share pkt's feature values
BuiltAs(pkt) ==
    {k \in 1 .. Len(obs.built) : obs.built[k].pkt.features = pkt.features}

\* the place of a handed packet in the built stream
BuiltIndex(pkt) == CHOOSE k \in BuiltAs(pkt) : TRUE

\* a packet was dropped on a full PacketQueue between built packets a and b
DropBetween(a, b) ==
    \E k \in a + 1 .. b - 1 : obs.built[k].status = "TX_QUEUE_FULL"

\* the i-th and the (i+1)-th handed packet have a drop between them
HandedAcrossDrop(i) ==
    /\ BuiltAs(obs.handed[i]) # {} /\ BuiltAs(obs.handed[i + 1]) # {}
    /\ DropBetween(BuiltIndex(obs.handed[i]), BuiltIndex(obs.handed[i + 1]))

\* the sender thread has taken a packet from PacketQueue and has not yet
\* returned to the top of its loop
SenderHoldsPacket == tel_pc \notin {"loop", "none"}

\* this step of the extractor finished a packet
PacketFinished == obs'.nbuilt = obs.nbuilt + 1

\* this step wrote tel_pkt' to the ring-buffer cache (Telemetry_BufferPut)
CacheWriteStep ==
    \/ build = "CubeIDE" /\ tel_pc = "put" /\ tel_pc' = "loop"
    \/ build = "Core" /\ obs'.dequeued = obs.dequeued + 1

\* what Telemetry_GetLastPacket would return now into a fresh buffer
LastPacketNow ==
    IF build = "NetXDuo"
    THEN Telemetry_GetLastPacket_NetXDuo(
             telemetry_last_pkt_valid, telemetry_last_pkt, OutBuffer(UnwrittenBuffer))
    ELSE IF build = "CubeIDE"
    THEN Telemetry_GetLastPacket_CubeIDE(
             telemetry_initialized, telemetry_buffer, OutBuffer(UnwrittenBuffer))
    ELSE Telemetry_GetLastPacket_Core(
             telemetry_initialized, telemetry_buffer, OutBuffer(UnwrittenBuffer))

(* ------------------------------------------------------------------ *)
(* Properties                                                          *)
(* ------------------------------------------------------------------ *)
\* C1: after any sequence of receive outcomes the number of packets built is
\* floor(frames received / 4), the accumulator holds the frames of the
\* unfinished batch, and every packet is computed over exactly 2048 samples:
\* the four frames received in its cycle.
C1_PacketPerFourFrames ==
    /\ obs.nbuilt = obs.received \div AUDIO_FRAMES_PER_PACKET
    /\ feature_buffer.sample_count =
           (obs.received % AUDIO_FRAMES_PER_PACKET) * AUDIO_FRAME_SIZE
    /\ Len(obs.built) = obs.nbuilt - ran
    /\ \A i \in 1 .. Len(obs.built) :
         /\ obs.built[i].samples = AUDIO_SAMPLES_PER_PACKET
         /\ obs.built[i].pkt.features.stats =
                [j \in 1 .. AUDIO_FRAMES_PER_PACKET |->
                    AUDIO_FRAMES_PER_PACKET * (ran + i - 1) + j - 1]

\* two packets built, a failed receive in between, a batch under way
C1_Witness ==
    /\ Len(obs.built) >= 2
    /\ obs.fx_errors > 0
    /\ obs.received % AUDIO_FRAMES_PER_PACKET = 3

\* C2: when a packet is finished while PacketQueue holds 2 packets, the
\* extractor's error_count grows by exactly 1, packet_count is unchanged and
\* PacketQueue is unchanged.
C2_FullQueueDrop ==
    [][(PacketFinished /\ Len(output_queue) = FEATURE_EXTRACT_QUEUE_DEPTH) =>
           /\ feature_ctx'.error_count = feature_ctx.error_count + 1
           /\ feature_ctx'.packet_count = feature_ctx.packet_count
           /\ output_queue' = output_queue]_vars

\* a packet has been dropped on the full queue
C2_Witness ==
    /\ Len(output_queue) = FEATURE_EXTRACT_QUEUE_DEPTH
    /\ \E i \in 1 .. Len(obs.built) : obs.built[i].status = "TX_QUEUE_FULL"
    /\ feature_ctx.error_count = 1

\* C3: every step that finishes a packet leaves the accumulator empty and the
\* merged error flags 0, whether the packet was queued or dropped, and a frame
\* received by an empty accumulator is stored at offset 0.
C3_AccumulatorReset ==
    [][/\ PacketFinished =>
             /\ feature_buffer' = EmptyFeatureBuffer
             /\ last_error_flags' = 0
       /\ (obs'.received = obs.received + 1 /\ feature_buffer.sample_count = 0) =>
             /\ feature_buffer'.sample_count = AUDIO_FRAME_SIZE
             /\ feature_buffer'.accumulated_samples[0] = Head(frame_queue).samples
      ]_vars

\* a packet with error flags was dropped and the next batch has begun
C3_Witness ==
    /\ \E i \in 1 .. Len(obs.built) :
         /\ obs.built[i].status = "TX_QUEUE_FULL"
         /\ obs.built[i].pkt.status_flags # 0
    /\ obs.received = AUDIO_FRAMES_PER_PACKET * obs.nbuilt + 1
    /\ feature_buffer.sample_count = AUDIO_FRAME_SIZE
    /\ last_error_flags = 0

\* C4: with the CubeIDE and the Core sender, the seq_number values of
\* successive packets handed to the transport go up by exactly 1 modulo 65536
\* (65535 is followed by 0), none skipped.
C4_WireSeqConsecutive ==
    build \in {"CubeIDE", "Core"} =>
        \A i \in 1 .. Len(obs.handed) - 1 :
            obs.handed[i + 1].seq_number = SeqSucc(obs.handed[i].seq_number)

\* C5: with the CubeIDE and the NetXDuo sender, the i-th packet handed to the
\* transport since start carries the sender's own count of packets received
\* before it (a counter starting at 0, 16 bits in the packet), whatever number
\* the extractor wrote.
C5_SenderAssignsSeq ==
    build \in {"CubeIDE", "NetXDuo"} =>
        \A i \in 1 .. Len(obs.handed) :
            obs.handed[i].seq_number = (ran + i - 1) % UINT16_RANGE

C7_OrderPreserved ==
    /\ \A i \in 1 .. Len(obs.handed) :
         /\ Cardinality(BuiltAs(obs.handed[i])) = 1
         /\ LET b == obs.built[BuiltIndex(obs.handed[i])]
            IN  /\ b.status = "TX_SUCCESS"
                /\ [obs.handed[i] EXCEPT !.seq_number = 0] =
                       [b.pkt EXCEPT !.seq_number = 0]
    /\ \A i, j \in 1 .. Len(obs.handed) :
         i < j => BuiltIndex(obs.handed[i]) < BuiltIndex(obs.handed[j])

\* three packets were handed over, two of them taken from a full queue, and
\* one packet was dropped
C7_Witness ==
    /\ Len(obs.handed) >= 3
    /\ \E k \in 1 .. Len(obs.built) : obs.built[k].status = "TX_QUEUE_FULL"

\* C8: after an iteration of the CubeIDE or NetXDuo sender whose transmit
\* failed, the sender's error counter is above its value at the receive,
\* tx_count is what it was, and Telemetry_GetLastPacket returns the packet
\* whose transmission was attempted.
C8_FailedTransmitCached ==
    (/\ build \in {"CubeIDE", "NetXDuo"}
     /\ tel_pc = "loop"
     /\ obs.last.status \notin {"none", "NX_SUCCESS"}) =>
        /\ Telemetry_GetErrorCount > obs.last.err0
        /\ Telemetry_GetTxCount = obs.last.tx0
        /\ LastPacketNow.ret = 1
        /\ LastPacketNow.pkt = obs.last.pkt

\* a transmit failed and a later Telemetry_GetLastPacket returned its packet
C8_Witness ==
    /\ build \in {"CubeIDE", "NetXDuo"}
    /\ tel_pc = "loop"
    /\ obs.last.status \notin {"none", "NX_SUCCESS"}
    /\ obs.reads > 0
    /\ http_out.ret = 1 /\ http_out.pkt = obs.last.pkt

\* C9: at the head of the CubeIDE or NetXDuo sender loop, tx_count +
\* error_count equals the packets dequeued plus the queue receives that ended
\* with an error.
C9_OneCountPerPacket ==
    (build \in {"CubeIDE", "NetXDuo"} /\ tel_pc = "loop") =>
        Telemetry_GetTxCount + Telemetry_GetErrorCount =
            obs.dequeued + obs.q_errors

\* C10: a write to a cache holding TELEMETRY_MAX_PACKETS packets is accepted:
\* the packet is stored at the write cursor, the read cursor advances by one
\* and the count stays at TELEMETRY_MAX_PACKETS; the count never exceeds it.
C10_FullCacheOverwrites ==
    [][/\ telemetry_buffer'.packet_count <= TELEMETRY_MAX_PACKETS
       /\ (CacheWriteStep /\ telemetry_buffer.packet_count = TELEMETRY_MAX_PACKETS) =>
             /\ telemetry_buffer'.packets[telemetry_buffer.write_index] = tel_pkt'
             /\ telemetry_buffer'.write_index =
                    (telemetry_buffer.write_index + 1) % TELEMETRY_MAX_PACKETS
             /\ telemetry_buffer'.read_index =
                    (telemetry_buffer.read_index + 1) % TELEMETRY_MAX_PACKETS
             /\ telemetry_buffer'.packet_count = TELEMETRY_MAX_PACKETS
      ]_vars

\* C11: with the ring-buffer cache (CubeIDE, Core), once a packet has been
\* written, Telemetry_GetLastPacket returns success and the most recently
\* written packet, also after the ring has wrapped.
C11_LastIsNewest ==
    (build \in {"CubeIDE", "Core"} /\ obs.last.status # "none") =>
        /\ LastPacketNow.ret = 1
        /\ LastPacketNow.pkt = obs.last.pkt

\* this step is a call of Telemetry_GetLastPacket
ReadStep == obs'.reads = obs.reads + 1

\* C12: a call of Telemetry_GetLastPacket leaves the cache as it was (stored
\* packets, cursors, count), and a call that found a packet is followed by a
\* cache from which the next call returns that same packet.
C12_ReadIsPure ==
    [][ReadStep =>
          /\ UNCHANGED <<telemetry_buffer, telemetry_last_pkt, telemetry_last_pkt_valid>>
          /\ http_out'.ret = 1 =>
                 /\ LastPacketNow'.ret = 1
                 /\ LastPacketNow'.pkt = http_out'.pkt
      ]_vars

\* the packets that were ever written to the cache: those cached before the
\* initial state and those the sender has passed on since
WrittenPackets ==
    {obs.handed[i] : i \in 1 .. Len(obs.handed)}
      \cup {SentPacket(build, k) :
              k \in {n \in (0 .. TELEMETRY_MAX_PACKETS - 1)
                            \cup (ran - TELEMETRY_MAX_PACKETS .. ran - 1) :
                        n >= 0 /\ n < ran}}

\* C13: whatever the interleaving of the sender's cache update with a call of
\* Telemetry_GetLastPacket, a record returned to the caller is, field for
\* field, one single packet that was written to the cache.
C13_NoTornRead ==
    (obs.reads > 0 /\ http_out.ret = 1) => http_out.pkt \in WrittenPackets

\* C14: a call of Telemetry_GetLastPacket with a NULL output buffer, before
\* Telemetry_Init, or on a cache to which no write has completed, returns 0
\* and leaves the caller's buffer as it was.
C14_NoDataOnEmpty ==
    [][(ReadStep /\ (http_out'.out_null \/ ~Initialised \/ NeverWritten)) =>
          (http_out'.ret = 0 /\ http_out'.pkt = http_out.pkt)
      ]_vars

\* a read of an initialised, never written cache into a real buffer, made
\* while the sender was writing its first packet, returned 0
C14_Witness ==
    /\ obs.reads > 0 /\ ~http_out.out_null /\ Initialised /\ NeverWritten
    /\ obs.dequeued > 0 /\ obs.last.status = "none"
    /\ http_out.ret = 0 /\ http_out.pkt = UnwrittenBuffer

\* this step changed a packet held in the cache
CacheStoreStep ==
    \/ telemetry_last_pkt' # telemetry_last_pkt
    \/ telemetry_buffer'.packets # telemetry_buffer.packets

\* C15: every step that stores into the retained cache is taken by the sender
\* while it holds the cache mutex, every step that copies a packet out of it
\* is taken by the reader while it holds the mutex, and a task back at the top
\* of its loop has released it.
C15_CacheUnderMutex ==
    [][/\ CacheStoreStep => telemetry_buffer.mutex = "sender"
       /\ (ReadStep /\ http_out'.ret = 1) => telemetry_buffer.mutex = "reader"
       /\ tel_pc' \in {"loop", "none"} => telemetry_buffer'.mutex # "sender"
      ]_vars

\* C16: in the sender threads (NetXDuo, CubeIDE) a packet is dequeued and
\* handed to the transport only while readiness is 1 and the endpoint bound,
\* and readiness is 1 only when socket creation and bind have succeeded.
C16_SenderOnlyWhenReady ==
    build \in {"NetXDuo", "CubeIDE"} =>
        /\ SenderHoldsPacket => (Telemetry_IsReady = 1 /\ udp_socket = "bound")
        /\ Telemetry_IsReady = 1 => udp_socket = "bound"

\* Telemetry_Start has returned after a failed socket creation or bind
EndpointStartFailed == start_pc \in {"error", "done"} /\ udp_socket # "bound"

\* the sender loop has been started (NetXDuo: the suspended thread resumed
\* with is_running set; CubeIDE: the thread created)
SenderStarted ==
    IF build = "NetXDuo" THEN telemetry_ctx.is_running = 1 ELSE tel_pc # "none"

\* C17: once socket creation or bind has failed in Telemetry_Start, the
\* caller has received the failure (the startup thread is in Error_Handler),
\* readiness is 0, the sender loop is not started and the sender has taken no
\* packet from PacketQueue.
C17_StartFailureIsFatal ==
    EndpointStartFailed =>
        /\ start_pc = "error"
        /\ Telemetry_IsReady = 0
        /\ ~SenderStarted
        /\ obs.dequeued = ran /\ obs.handed = <<>>

\* C18: with the packet pool empty for ever, the sender thread is always
\* back at the top of its loop again: no wait inside an iteration is unbounded.
C18_SenderReturnsToLoop == []<>(~SenderHoldsPacket)

\* the capture timestamp of the first frame accumulated into a built packet
\* (stats holds the frames' contents in the order they were accumulated)
FirstFrameTimestamp(pkt) == AudioFrame(pkt.features.stats[1], 0).timestamp_ms

\* C19: the timestamp_ms of every packet the extractor emits is the capture
\* timestamp of the first frame of its batch.
C19_TimestampOfFirstFrame ==
    \A i \in 1 .. Len(obs.built) :
        obs.built[i].pkt.timestamp_ms = FirstFrameTimestamp(obs.built[i].pkt)

\* the error_flags with which frame n was queued
FrameErrorFlags(n) ==
    IF \E r \in obs.flagged : r.frame = n
    THEN (CHOOSE r \in obs.flagged : r.frame = n).error_flags
    ELSE 0

\* the bitwise OR of the error_flags of the frames accumulated into pkt
BatchErrorFlags(pkt) ==
    LET f(j) == FrameErrorFlags(pkt.features.stats[j])
    IN  BitOr(BitOr(f(1), f(2)), BitOr(f(3), f(4)))

C26_BandsOverWholeBatch ==
    \A i \in 1 .. Len(obs.built) :
        obs.built[i].pkt.features.fft = obs.built[i].pkt.features.stats

\* the frames tx_queue_receive has handed to the extractor: those queued by
\* the source and no longer waiting in FrameQueue
ReceivedFrames ==
    {n \in AUDIO_FRAMES_PER_PACKET * ran .. frame_counter - 1 :
        \A k \in 1 .. Len(frame_queue) : frame_queue[k].frame_number # n}

\* the places that hold the samples of frame n: a block of a built packet's
\* batch (packet i, block j) or a filled block j of the accumulator (i = 0)
FramePlaces(n) ==
    {p \in (1 .. Len(obs.built)) \X (1 .. AUDIO_FRAMES_PER_PACKET) :
        obs.built[p[1]].pkt.features.stats[p[2]] = n}
    \cup
    {p \in {0} \X (1 .. feature_buffer.sample_count \div AUDIO_FRAME_SIZE) :
        feature_buffer.accumulated_samples[p[2] - 1] = n}

\* C30: every frame the extractor has received is held exactly once, in the
\* batch of exactly one built packet or in the batch being accumulated, and
\* the accumulator always has room for the next frame.
C30_FrameConsumedOnce ==
    /\ feature_buffer.sample_count + AUDIO_FRAME_SIZE <= AUDIO_SAMPLES_PER_PACKET
    /\ \A n \in ReceivedFrames :
           Cardinality(FramePlaces(n)) = 1

\* three batches finished, the third dropped on the full PacketQueue, and the
\* first frame of the next batch accumulated
C30_Witness ==
    /\ Len(obs.built) = 3
    /\ obs.built[3].status = "TX_QUEUE_FULL"
    /\ feature_buffer.sample_count = AUDIO_FRAME_SIZE
    /\ Cardinality(ReceivedFrames) = 3 * AUDIO_FRAMES_PER_PACKET + 1

(* ------------------------------------------------------------------ *)
(* The packet structure each sender is compiled with                   *)
(* ------------------------------------------------------------------ *)
\* a structure member of `count` elements of `size` bytes each
Member(name, size, count) ==
    [name |-> name, size |-> size, count |-> count]

\* audio_features.h: typedef struct __attribute__((packed)) { ... }
\* AudioTelemetryPacket_t, included by the NetXDuo and the CubeIDE sender
AudioTelemetryPacket_t_Packed ==
    [packed |-> TRUE,
     members |-> << Member("version", 1, 1), Member("reserved1", 1, 1),
                    Member("seq_number", 2, 1), Member("timestamp_ms", 4, 1),
                    Member("rms_raw", 2, 1), Member("rms_reserved", 2, 1),
                    Member("zcr_count", 2, 1), Member("zcr_rate", 2, 1),
                    Member("spl_db", 2, 1), Member("peak_amplitude", 2, 1),
                    Member("fft_band", 4, 8), Member("node_id", 1, 1),
                    Member("status_flags", 1, 1), Member("error_count", 2, 1),
                    Member("uptime_sec", 4, 1), Member("reserved3", 4, 1) >>]

\* Core/Inc/app_telemetry.h: typedef struct { ... } AudioTelemetryPacket_t,
\* included by the Core sender
AudioTelemetryPacket_t_Core ==
    [packed |-> FALSE,
     members |-> << Member("seq_number", 4, 1), Member("timestamp_ms", 4, 1),
                    Member("uptime_sec", 4, 1), Member("rms_raw", 4, 1),
                    Member("spl_db", 4, 1), Member("peak_amplitude", 4, 1),
                    Member("zcr_rate", 4, 1), Member("status_flags", 4, 1),
                    Member("error_count", 4, 1), Member("fft_band", 4, 8) >>]

\* the definition of AudioTelemetryPacket_t seen by the sender of build b
AudioTelemetryPacket_t(b) ==
    IF b = "Core" THEN AudioTelemetryPacket_t_Core ELSE AudioTelemetryPacket_t_Packed

\* n rounded up to a multiple of align
AlignUp(n, align) ==
    ((n + align - 1) \div align) * align

\* the alignment the compiler gives a member
AlignOf(struct, i) ==
    IF struct.packed THEN 1 ELSE struct.members[i].size

RECURSIVE OffsetOf(_, _)
\* offsetof(struct, i-th member)
OffsetOf(struct, i) ==
    IF i = 1 THEN 0
    ELSE LET prev == struct.members[i - 1]
         IN  AlignUp(OffsetOf(struct, i - 1) + prev.size * prev.count,
                     AlignOf(struct, i))

\* the largest member alignment of the structure
StructAlign(struct) ==
    LET aligns == {AlignOf(struct, i) : i \in 1 .. Len(struct.members)}
    IN  CHOOSE a \in aligns : \A b \in aligns : b <= a

\* sizeof(struct)
SizeOf(struct) ==
    LET n == Len(struct.members)
        last == struct.members[n]
    IN  AlignUp(OffsetOf(struct, n) + last.size * last.count, StructAlign(struct))

\* the datagram payload the sender of build b gives to nx_udp_socket_send for
\* pkt: sizeof(AudioTelemetryPacket_t) bytes copied from the packet
DatagramPayload(b, pkt) ==
    [data |-> pkt, nx_packet_length |-> SizeOf(AudioTelemetryPacket_t(b))]

\* C27: every datagram payload handed to the transport is exactly 64 bytes
\* long whichever packet structure the sender is built with, and the members
\* of the wire record lie at the offsets of the layout table and end at 64.
C27_PayloadIs64Bytes ==
    /\ \A i \in 1 .. Len(obs.handed) :
           DatagramPayload(build, obs.handed[i]).nx_packet_length = 64
    /\ LET wire == AudioTelemetryPacket_t_Packed
       IN  /\ [i \in 1 .. Len(wire.members) |-> OffsetOf(wire, i)] =
                  <<0, 1, 2, 4, 8, 10, 12, 14, 16, 18, 20, 52, 53, 54, 56, 60>>
           /\ SizeOf(wire) = 64

\* a step in which the NetXDuo sender gives a datagram to nx_udp_socket_send
SendStep ==
    build = "NetXDuo" /\ Len(obs'.sent) = Len(obs.sent) + 1

\* a step in which Telemetry_SetReceiver or Telemetry_SetBroadcast is called
ReconfigureStep ==
    Len(obs'.calls) = Len(obs.calls) + 1

\* C28: every datagram goes to the destination configured when it is
\* transmitted: to 255.255.255.255 on the configured port while the broadcast
\* flag is set, to the configured address and port while it is clear; and a
\* call of Telemetry_SetBroadcast or Telemetry_SetReceiver, also while the
\* sender runs, puts its arguments into that configuration.
C28_DestinationReadAtTransmit ==
    [][ /\ SendStep =>
            LET d == obs'.sent[Len(obs'.sent)]
            IN  /\ d.port = telemetry_ctx.receiver_port
                /\ d.ip = IF telemetry_ctx.use_broadcast # 0
                          THEN IP_ADDRESS(255, 255, 255, 255)
                          ELSE telemetry_ctx.receiver_ip
        /\ ReconfigureStep =>
            LET c == obs'.calls[Len(obs'.calls)]
            IN  IF c.fn = "Telemetry_SetBroadcast"
                THEN telemetry_ctx' = [telemetry_ctx EXCEPT !.use_broadcast = c.enable]
                ELSE IF c.ip_addr = IP_NONE
                THEN telemetry_ctx' = telemetry_ctx
                ELSE telemetry_ctx' = [telemetry_ctx EXCEPT
                                         !.receiver_ip = c.ip_addr,
                                         !.receiver_port = c.port]
      ]_vars

\* the running sender broadcast one packet, was then given a receiver address
\* and port and switched to unicast, and sent the next packet there
C28_Witness ==
    /\ build = "NetXDuo"
    /\ Len(obs.sent) = 2
    /\ Len(obs.calls) = 2
    /\ obs.sent[1] = [ip |-> IP_ADDRESS(255, 255, 255, 255),
                      port |-> TELEMETRY_UDP_PORT_RX]
    /\ obs.sent[2] = [ip |-> IP_ADDRESS(192, 168, 1, 100),
                      port |-> TELEMETRY_UDP_PORT_TX]

\* C29: after Telemetry_Start(queue, ip) with an ip that is neither 0 nor
\* 0xFFFFFFFF, and no later change of the destination, every datagram sent
\* goes to that ip.
C29_StartAddressIsUnicast ==
    (obs.start_ip \notin {IP_NONE, IP_ADDRESS(255, 255, 255, 255)} /\ obs.calls = <<>>)
        => \A i \in 1 .. Len(obs.sent) : obs.sent[i].ip = obs.start_ip

(* ------------------------------------------------------------------ *)
(* Feature computations (audio_features.c)                             *)
(*                                                                     *)
(* The double expressions of the RMS are evaluated here as exact real   *)
(* arithmetic on integers of any length, so the last bit of a rounded  *)
(* result is not modelled. The sound pressure level and the band       *)
(* magnitudes are followed as the ranges their values lie in.          *)
(* ------------------------------------------------------------------ *)
\* a non-negative integer of any length: its digits in base 2^15, lowest
\* first, without leading zeros
LIMB == Q15_MAX + 1

\* the digit of weight LIMB^(i-1)
BigDigit(a, i) ==
    IF i <= Len(a) THEN a[i] ELSE 0

BigTrim(a) ==
    LET used == {i \in 1 .. Len(a) : a[i] # 0}
    IN  IF used = {} THEN <<>>
        ELSE SubSeq(a, 1, CHOOSE i \in used : \A j \in used : j <= i)

BigOf(n) ==
    BigTrim(<<n % LIMB, (n \div LIMB) % LIMB, n \div (LIMB * LIMB)>>)

\* a + b: the carry into a digit comes from the nearest lower digit that
\* overflows, through digits that sum to LIMB - 1
BigAdd(a, b) ==
    IF a = <<>> THEN b
    ELSE IF b = <<>> THEN a
    ELSE LET n == IF Len(a) > Len(b) THEN Len(a) ELSE Len(b)
             sum(i) == BigDigit(a, i) + BigDigit(b, i)
             carry(i) == IF \E j \in 1 .. i - 1 :
                               /\ sum(j) >= LIMB
                               /\ \A k \in j + 1 .. i - 1 : sum(k) = LIMB - 1
                         THEN 1 ELSE 0
         IN  BigTrim([i \in 1 .. n + 1 |-> (sum(i) + carry(i)) % LIMB])

RECURSIVE BigColumn(_, _, _, _, _, _)
\* the low (or high) halves of the digit products a[i] * b[k - i + 1], added
\* for i = lo .. hi
BigColumn(a, b, k, lo, hi, high) ==
    IF lo > hi THEN 0
    ELSE IF lo = hi
    THEN LET product == BigDigit(a, lo) * (IF k - lo + 1 >= 1 THEN BigDigit(b, k - lo + 1) ELSE 0)
         IN  IF high THEN product \div LIMB ELSE product % LIMB
    ELSE LET mid == (lo + hi) \div 2
         IN  BigColumn(a, b, k, lo, mid, high) + BigColumn(a, b, k, mid + 1, hi, high)

\* a * b
BigTimes(a, b) ==
    IF a = <<>> \/ b = <<>> THEN <<>>
    ELSE LET n == Len(a) + Len(b)
             column == SubSeq([k \in 1 .. n |->
                                  BigColumn(a, b, k, 1, Len(a), FALSE)
                                      + BigColumn(a, b, k - 1, 1, Len(a), TRUE)], 1, n)
         IN  BigAdd(BigTrim([k \in 1 .. n |-> column[k] % LIMB]),
                    BigTrim([k \in 1 .. n + 1 |->
                                IF k = 1 THEN 0 ELSE column[k - 1] \div LIMB]))

\* a <= b
BigLeq(a, b) ==
    \/ a = <<>>
    \/ /\ b # <<>>
       /\ LET n == IF Len(a) > Len(b) THEN Len(a) ELSE Len(b)
              differ == {i \in 1 .. n : BigDigit(a, i) # BigDigit(b, i)}
          IN  \/ differ = {}
              \/ LET top == CHOOSE i \in differ : \A j \in differ : j <= i
                 IN  BigDigit(a, top) < BigDigit(b, top)

\* (int16_t)v and (uint16_t)v as the compiler for this target converts
Int16(v) ==
    ((v + 32768) % UINT16_RANGE) - 32768

Uint16(v) ==
    v % UINT16_RANGE

\* accumulated_samples[i], for frames whose 512 samples repeat a short
\* pattern (the frame's `samples`); the samples past sample_count are the
\* zeros of the reset
SampleAt(buf, i) ==
    LET block == buf.accumulated_samples[i \div AUDIO_FRAME_SIZE]
    IN  IF i >= buf.sample_count THEN 0
        ELSE block[((i % AUDIO_FRAME_SIZE) % Len(block)) + 1]

RECURSIVE SumOfSquares(_, _, _)
\* sum += (double)samples[i] * samples[i], for i = lo .. hi
SumOfSquares(buf, lo, hi) ==
    IF lo = hi THEN BigOf(SampleAt(buf, lo) * SampleAt(buf, lo))
    ELSE LET mid == (lo + hi) \div 2
         IN  BigAdd(SumOfSquares(buf, lo, mid), SumOfSquares(buf, mid + 1, hi))

RECURSIVE LargestRoot(_, _, _, _)
\* the largest r in lo .. hi with r^2 * factor <= square (it holds at lo)
LargestRoot(lo, hi, factor, square) ==
    IF lo = hi THEN lo
    ELSE LET mid == (lo + hi + 1) \div 2
         IN  IF BigLeq(BigTimes(factor, BigOf(mid * mid)), square)
             THEN LargestRoot(mid, hi, factor, square)
             ELSE LargestRoot(lo, mid - 1, factor, square)

\* variant: the RMS is returned without the scaling to Q15
AudioFeatures_CalculateRMS_Unscaled(buf, count) ==
    IF count = 0 THEN 0
    ELSE LET sum == SumOfSquares(buf, 0, count - 1)
         IN  Uint16(LargestRoot(0, LIMB, BigOf(count), sum))

\* AudioFeatures_CalculateRMS(samples, count)
AudioFeatures_CalculateRMS(buf, count) ==
    IF count = 0 THEN 0
    ELSE LET sum == SumOfSquares(buf, 0, count - 1)
             \* normalized_rms > 0.99999, that is
             \* sum * 10^10 > count * 99999^2 * 32768^2
             saturated ==
                 ~BigLeq(BigTimes(sum, BigTimes(BigOf(100000), BigOf(100000))),
                         BigTimes(BigOf(count),
                                  BigTimes(BigTimes(BigOf(99999), BigOf(99999)),
                                           BigOf(LIMB * LIMB))))
         IN  IF saturated THEN Q15_MAX
             \* (uint16_t)(normalized_rms * Q15_MAX): the largest r with
             \* r^2 * count * 32768^2 <= sum * 32767^2
             ELSE Uint16(LargestRoot(0, Q15_MAX,
                                     BigTimes(BigOf(count), BigOf(LIMB * LIMB)),
                                     BigTimes(sum, BigOf(Q15_MAX * Q15_MAX))))

\* variant: a sample of 0 is taken as negative
AudioFeatures_CalculateZCR_ZeroNegative(buf, count) ==
    IF count < 2 THEN 0
    ELSE LET zero_crossings ==
                 Cardinality({i \in 1 .. count - 1 :
                     \/ SampleAt(buf, i - 1) > 0 /\ SampleAt(buf, i) <= 0
                     \/ SampleAt(buf, i - 1) <= 0 /\ SampleAt(buf, i) > 0})
             zcr_percent == Uint16((zero_crossings * 100) \div count)
         IN  IF zcr_percent > 100 THEN 100 ELSE zcr_percent

\* AudioFeatures_CalculateZCR(samples, count)
AudioFeatures_CalculateZCR(buf, count) ==
    IF count < 2 THEN 0
    ELSE LET zero_crossings ==
                 Cardinality({i \in 1 .. count - 1 :
                     \/ SampleAt(buf, i - 1) >= 0 /\ SampleAt(buf, i) < 0
                     \/ SampleAt(buf, i - 1) < 0 /\ SampleAt(buf, i) >= 0})
             zcr_percent == Uint16((zero_crossings * 100) \div count)
         IN  IF zcr_percent > 100 THEN 100 ELSE zcr_percent

\* AudioFeatures_FindPeakAmplitude(samples, count): abs_val is an int16_t, so
\* the negation of -32768 is stored as -32768 again
AudioFeatures_FindPeakAmplitude(buf, count) ==
    LET magnitude(i) ==
            LET sample == SampleAt(buf, i)
                abs_val == IF sample < 0 THEN Int16(0 - sample) ELSE sample
            IN  Uint16(abs_val)
        seen == {magnitude(i) : i \in 0 .. count - 1} \cup {0}
    IN  CHOOSE peak \in seen : \A m \in seen : m <= peak

\* AudioFeatures_CalculateSPL(rms_q15, 20e-6f): pressure / ref_pressure is
\* rms_q15 / Q15_MAX, or 1e-7 / 20e-6 = 1 / 200 where the pressure is floored.
\* log10f is followed to the decade: with 10^-decade <= num / den and
\* num / den < 10^(1 - decade), 20 * log10f(num / den) + 84 is at least
\* 84 - 20 * decade and below 104 - 20 * decade. The result is the range the
\* clamped and truncated spl lies in.
AudioFeatures_CalculateSPL(rms_q15) ==
    LET floored == rms_q15 * 200 < Q15_MAX
        num == IF floored THEN 1 ELSE rms_q15
        den == IF floored THEN 200 ELSE Q15_MAX
        tenTo == <<1, 10, 100, 1000>>
        decade == CHOOSE e \in 0 .. 3 :
                      /\ num * tenTo[e + 1] >= den
                      /\ e = 0 \/ num * tenTo[e] < den
        clamp(spl) == IF spl < 0 THEN 0 ELSE IF spl > 120 THEN 120 ELSE spl
    IN  [min |-> clamp(84 - 20 * decade), max |-> clamp(103 - 20 * decade)]

\* a double of the band computation, known only as exactly zero or not:
\* the coefficients 2 * cos(omega), cos(omega) and sin(omega) are "any"
Double0(x) ==
    IF x = 0 THEN "zero" ELSE "any"

Sum0(a, b) ==
    IF a = "zero" THEN b ELSE IF b = "zero" THEN a ELSE "any"

Product0(a, b) ==
    IF a = "zero" \/ b = "zero" THEN "zero" ELSE "any"

\* the values of <<s_prev, s_curr>>
GoertzelStates ==
    {"zero", "any"} \X {"zero", "any"}

RECURSIVE Goertzel(_, _, _)
\* <<s_prev, s_curr>> after s_next = samples[n] + coeff * s_curr - s_prev for
\* n = lo .. hi, as a function of the pair before them
Goertzel(buf, lo, hi) ==
    IF lo = hi
    THEN [s \in GoertzelStates |->
            <<s[2], Sum0(Sum0(Double0(SampleAt(buf, lo)), Product0("any", s[2])), s[1])>>]
    ELSE LET mid == (lo + hi) \div 2
             first == Goertzel(buf, lo, mid)
             second == Goertzel(buf, mid + 1, hi)
         IN  [s \in GoertzelStates |-> second[first[s]]]

\* variant: a magnitude that is rounded up
BandMagnitude_RoundedUp(band_energy) ==
    IF band_energy = "zero" THEN [min |-> 1, max |-> 1]
    ELSE [min |-> 1, max |-> 1000000]

\* magnitude = (uint32_t)(sqrt(band_energy) / 1000.0), at most 1000000: the
\* range the magnitude lies in
BandMagnitude(band_energy) ==
    IF band_energy = "zero" THEN [min |-> 0, max |-> 0]
    ELSE [min |-> 0, max |-> 1000000]

\* AudioFeatures_ComputeFFTBands(samples, bands): bands[0 .. FFT_BANDS - 1].
\* The recurrence reads samples[0 .. FFT_SIZE - 1] for every bin; whether its
\* result is zero does not depend on the bin, so it is evaluated once.
AudioFeatures_ComputeFFTBands(buf) ==
    LET bin_width == SAMPLE_RATE \div FFT_SIZE
        bins_per_band == BAND_WIDTH \div bin_width
        s == Goertzel(buf, 0, FFT_SIZE - 1)[<<"zero", "zero">>]
        real == Sum0(s[2], Product0(s[1], "any"))
        imag == Product0(s[1], "any")
        bin_energy == Sum0(Product0(real, real), Product0(imag, imag))
    IN  [band \in 0 .. FFT_BANDS - 1 |->
            LET bin_start == band * bins_per_band
                bin_end == IF (band + 1) * bins_per_band > FFT_SIZE \div 2
                           THEN FFT_SIZE \div 2
                           ELSE (band + 1) * bins_per_band
                bins == {k \in bin_start .. bin_end - 1 : k < FFT_SIZE \div 2}
            IN  BandMagnitude(IF bins = {} THEN "zero" ELSE bin_energy)]

\* FeatureExtraction_ProcessBuffer: the fields computed from the samples
FeatureExtraction_ProcessBuffer_Features(buf) ==
    LET rms_raw == AudioFeatures_CalculateRMS(buf, buf.sample_count)
    IN  [rms_raw |-> rms_raw,
         zcr_rate |-> AudioFeatures_CalculateZCR(buf, buf.sample_count),
         zcr_count |-> Uint16(buf.sample_count \div 2),
         peak_amplitude |-> AudioFeatures_FindPeakAmplitude(buf, buf.sample_count),
         spl_db |-> AudioFeatures_CalculateSPL(rms_raw),
         fft_band |-> AudioFeatures_ComputeFFTBands(buf)]

(* ------------------------------------------------------------------ *)
(* The feature functions applied to one accumulated batch              *)
(* ------------------------------------------------------------------ *)
SampleValues ==
    {0 - 32768, 0 - 1, 0, 1, Q15_MAX}

\* the sample patterns of a frame
Motifs ==
    UNION {[1 .. n -> SampleValues] : n \in 1 .. MaxMotif}

\* the counts the feature functions are called with
SampleCounts ==
    {0, 1, 2, 3, AUDIO_SAMPLES_PER_PACKET}

\* the accumulator after four frames with the same pattern
FullFeatureBuffer(motif) ==
    [accumulated_samples |-> [i \in 0 .. AUDIO_FRAMES_PER_PACKET - 1 |-> motif],
     sample_count |-> AUDIO_SAMPLES_PER_PACKET,
     start_timestamp_ms |-> 0]

InitFeatures ==
    \E motif \in Motifs :
        InitWith(FullFeatureBuffer(motif)) /\ build = "Core" /\ ran = NearWrap

\* FeatureExtraction_ProcessBuffer(&feature_ctx.feature_buffer, &telemetry_pkt)
FeatureExtraction_ProcessBuffer_Apply ==
    /\ obs.measured = <<>>
    /\ LET r == FeatureExtraction_ProcessBuffer(feature_buffer, feature_ctx,
                                                last_error_flags)
       IN  /\ feature_ctx' = [feature_ctx EXCEPT !.seq_number = r.seq_number]
           /\ obs' = [obs EXCEPT !.measured =
                        <<[call |-> "FeatureExtraction_ProcessBuffer",
                           count |-> feature_buffer.sample_count,
                           result |-> r.result,
                           values |-> FeatureExtraction_ProcessBuffer_Features(
                                          feature_buffer)]>>]
    /\ UNCHANGED <<build, ran, sys, start_pc, frame_counter, frame_queue, feature_buffer,
                   last_error_flags, output_queue, senderVars, http_out>>

\* the four feature functions called with the first `count` samples
AudioFeatures_Apply ==
    /\ obs.measured = <<>>
    /\ \E count \in SampleCounts :
         LET rms_raw == AudioFeatures_CalculateRMS(feature_buffer, count)
         IN  obs' = [obs EXCEPT !.measured =
                       <<[call |-> "AudioFeatures",
                          count |-> count,
                          result |-> 0,
                          values |->
                            [rms_raw |-> rms_raw,
                             zcr_rate |-> AudioFeatures_CalculateZCR(feature_buffer, count),
                             peak_amplitude |->
                                 AudioFeatures_FindPeakAmplitude(feature_buffer, count),
                             spl_db |-> AudioFeatures_CalculateSPL(rms_raw)]]>>]
    /\ UNCHANGED <<build, ran, sys, start_pc, frame_counter, frame_queue, extractorVars,
                   output_queue, senderVars, http_out>>

NextFeatures ==
    \/ FeatureExtraction_ProcessBuffer_Apply
    \/ AudioFeatures_Apply

SpecFeatures == InitFeatures /\ [][NextFeatures]_vars

(* ------------------------------------------------------------------ *)
(* Claims on the feature values of a batch                             *)
(* ------------------------------------------------------------------ *)
\* C21: the zcr_count of a packet is the number of sign transitions between
\* consecutive samples of the packet's batch.
C21_ZcrCountIsCrossings ==
    \A i \in 1 .. Len(obs.measured) :
        LET m == obs.measured[i]
            crossings == Cardinality({n \in 1 .. m.count - 1 :
                             (SampleAt(feature_buffer, n - 1) < 0)
                                 # (SampleAt(feature_buffer, n) < 0)})
        IN  (m.call = "FeatureExtraction_ProcessBuffer" /\ m.result = 0)
                => m.values.zcr_count = crossings

\* C22: AudioFeatures_FindPeakAmplitude returns the largest absolute sample
\* value of the batch, and its result is in 0 .. 32767, also for a batch that
\* holds -32768.
C22_PeakIsLargestMagnitudeInQ15 ==
    \A i \in 1 .. Len(obs.measured) :
        LET m == obs.measured[i]
            magnitudes == {IF SampleAt(feature_buffer, n) < 0
                           THEN 0 - SampleAt(feature_buffer, n)
                           ELSE SampleAt(feature_buffer, n) : n \in 0 .. m.count - 1}
                              \cup {0}
        IN  /\ m.values.peak_amplitude \in magnitudes
            /\ \A v \in magnitudes : v <= m.values.peak_amplitude
            /\ m.values.peak_amplitude \in 0 .. Q15_MAX

\* C23: for N >= 2 samples AudioFeatures_CalculateZCR returns
\* floor(crossings * 100 / N), where a crossing is a pair of consecutive
\* samples of which exactly one is negative (0 is not negative), and the
\* result is in 0 .. 100; for N < 2 it returns 0.
C23_ZcrIsCrossingPercentage ==
    \A i \in 1 .. Len(obs.measured) :
        LET m == obs.measured[i]
            crossings == Cardinality({n \in 1 .. m.count - 1 :
                             (SampleAt(feature_buffer, n - 1) < 0)
                                 # (SampleAt(feature_buffer, n) < 0)})
        IN  IF m.count >= 2
            THEN /\ m.values.zcr_rate = (crossings * 100) \div m.count
                 /\ m.values.zcr_rate \in 0 .. 100
            ELSE m.values.zcr_rate = 0

\* a batch of 2048 samples alternating between 0 and -1 was measured: 2047
\* crossings, rate 99
C23_Witness ==
    /\ Len(obs.measured) = 1
    /\ obs.measured[1].count = AUDIO_SAMPLES_PER_PACKET
    /\ feature_buffer.accumulated_samples[0] = <<0, 0 - 1>>
    /\ obs.measured[1].values.zcr_rate = 99

\* C24: the rms_raw of every batch is in 0 .. 32767 and every value the
\* spl_db derived from it may take is in 0 .. 120, also for the batches of all
\* 0 and of all -32768.
C24_RmsAndSplInRange ==
    \A i \in 1 .. Len(obs.measured) :
        /\ obs.measured[i].values.rms_raw \in 0 .. Q15_MAX
        /\ obs.measured[i].values.spl_db.min >= 0
        /\ obs.measured[i].values.spl_db.max <= 120
        /\ obs.measured[i].values.spl_db.min <= obs.measured[i].values.spl_db.max

\* the packet of a batch of 2048 samples of -32768: rms_raw saturates
C24_Witness ==
    /\ Len(obs.measured) = 1
    /\ obs.measured[1].call = "FeatureExtraction_ProcessBuffer"
    /\ \A n \in 0 .. AUDIO_SAMPLES_PER_PACKET - 1 :
           SampleAt(feature_buffer, n) = 0 - 32768
    /\ obs.measured[1].values.rms_raw = Q15_MAX
    /\ obs.measured[1].values.spl_db.min = 84

\* C25: the packet of a batch whose samples are all 0 has rms_raw = 0,
\* zcr_rate = 0, peak_amplitude = 0 and eight fft_band values of 0.
C25_SilentBatchIsAllZero ==
    \A i \in 1 .. Len(obs.measured) :
        LET m == obs.measured[i]
        IN  (/\ m.call = "FeatureExtraction_ProcessBuffer"
             /\ m.result = 0
             /\ \A n \in 0 .. m.count - 1 : SampleAt(feature_buffer, n) = 0)
                => /\ m.values.rms_raw = 0
                   /\ m.values.zcr_rate = 0
                   /\ m.values.peak_amplitude = 0
                   /\ DOMAIN m.values.fft_band = 0 .. FFT_BANDS - 1
                   /\ \A band \in 0 .. FFT_BANDS - 1 :
                          m.values.fft_band[band] = [min |-> 0, max |-> 0]

\* the packet of a batch of 2048 samples of 0
C25_Witness ==
    /\ Len(obs.measured) = 1
    /\ obs.measured[1].call = "FeatureExtraction_ProcessBuffer"
    /\ obs.measured[1].result = 0
    /\ obs.measured[1].count = AUDIO_SAMPLES_PER_PACKET
    /\ \A n \in 0 .. AUDIO_SAMPLES_PER_PACKET - 1 : SampleAt(feature_buffer, n) = 0

(* ------------------------------------------------------------------ *)
(* FeatureExtraction_ThreadEntry statement by statement                *)
(* ------------------------------------------------------------------ *)
\* the statuses tx_queue_receive returns besides TX_SUCCESS and TX_QUEUE_EMPTY
QueueErrors == {"TX_WAIT_ABORTED", "TX_QUEUE_ERROR"}

\* variant: the thread runs on although another thread has suspended it
ExtractorRuns_Unsuspended ==
    feature_ctx.is_running = 1

\* the extractor thread can run: started, and not suspended by another thread
ExtractorRuns ==
    feature_ctx.is_running = 1 /\ "extractor" \notin sys.suspended

\* status = tx_queue_receive(feature_ctx.input_queue, &frame, 100) returns
FeatureExtraction_QueueReceive ==
    /\ ExtractorRuns /\ sys.fx_pc = "receive"
    /\ \E status \in {"TX_SUCCESS", "TX_QUEUE_EMPTY"} \cup QueueErrors :
         /\ status = "TX_SUCCESS" => frame_queue # <<>>
         /\ status = "TX_QUEUE_EMPTY" => frame_queue = <<>>
         /\ status \in QueueErrors => obs.faults < MaxFaults
         /\ frame_queue' = IF status = "TX_SUCCESS"
                           THEN tx_queue_receive(frame_queue).queue
                           ELSE frame_queue
         /\ sys' = [sys EXCEPT
                      !.fx_pc = "status",
                      !.fx_status = status,
                      !.frame = IF status = "TX_SUCCESS"
                                THEN tx_queue_receive(frame_queue).msg
                                ELSE @]
         /\ obs' = [obs EXCEPT !.faults = IF status \in QueueErrors THEN @ + 1 ELSE @]
    /\ UNCHANGED <<build, ran, start_pc, frame_counter, extractorVars, output_queue,
                   senderVars, http_out>>

\* variant: every status other than TX_SUCCESS is counted as an error
FeatureExtraction_CountStatus_TimeoutCounted(ctx, status) ==
    IF status # "TX_SUCCESS" THEN [ctx EXCEPT !.error_count = @ + 1] ELSE ctx

\* variant: no status is counted
FeatureExtraction_CountStatus_ErrorIgnored(ctx, status) ==
    ctx

\* if (status == TX_QUEUE_EMPTY) continue;
\* else if (status != TX_SUCCESS) { feature_ctx.error_count++; continue; }
FeatureExtraction_CountStatus(ctx, status) ==
    IF status = "TX_QUEUE_EMPTY" THEN ctx
    ELSE IF status # "TX_SUCCESS" THEN [ctx EXCEPT !.error_count = @ + 1]
    ELSE ctx

\* variant: sizeof(frame.samples), a number of bytes, taken as the number of
\* samples copied
CopiedSamples_ByteCount(sample_offset) ==
    sample_offset .. sample_offset + 2 * AUDIO_FRAME_SIZE - 1

\* memcpy(&accumulated_samples[sample_offset], frame.samples,
\* sizeof(frame.samples)): the indices of accumulated_samples it writes
CopiedSamples(sample_offset) ==
    sample_offset .. sample_offset + AUDIO_FRAME_SIZE - 1

\* the statements from the test of status to the copy into the accumulator
FeatureExtraction_Dispatch ==
    /\ ExtractorRuns /\ sys.fx_pc = "status"
    /\ IF sys.fx_status = "TX_SUCCESS"
       THEN LET acc == AccumulateFrame(feature_buffer, last_error_flags, sys.frame)
            IN  /\ feature_buffer' = acc.buf
                /\ last_error_flags' = acc.flags
                /\ sys' = [sys EXCEPT !.fx_pc = "check"]
                /\ obs' = [obs EXCEPT
                             !.received = @ + 1,
                             !.copied = IF AccumulatorHasRoom(feature_buffer.sample_count)
                                        THEN CopiedSamples(feature_buffer.sample_count)
                                        ELSE {}]
                /\ UNCHANGED feature_ctx
       ELSE /\ feature_ctx' = FeatureExtraction_CountStatus(feature_ctx, sys.fx_status)
            /\ sys' = [sys EXCEPT !.fx_pc = "receive"]
            /\ obs' = [obs EXCEPT !.fx_errors = IF sys.fx_status \in QueueErrors
                                                THEN @ + 1 ELSE @]
            /\ UNCHANGED <<feature_buffer, last_error_flags>>
    /\ UNCHANGED <<build, ran, start_pc, frame_counter, frame_queue, output_queue,
                   senderVars, http_out>>

\* if (sample_count >= AUDIO_SAMPLES_PER_PACKET) { ... } and back to the top
FeatureExtraction_CheckBatch ==
    /\ ExtractorRuns /\ sys.fx_pc = "check"
    /\ sys' = [sys EXCEPT !.fx_pc = "receive"]
    /\ IF BatchComplete(feature_buffer.sample_count)
       THEN LET r == FeatureExtraction_ProcessBuffer(feature_buffer, feature_ctx,
                                                     last_error_flags)
                s == IF r.result = 0
                     THEN tx_queue_send(output_queue, FEATURE_EXTRACT_QUEUE_DEPTH, r.pkt)
                     ELSE [status |-> "none", queue |-> output_queue]
                reset == ResetAccumulator(feature_buffer, last_error_flags, s.status)
            IN  /\ output_queue' = s.queue
                /\ feature_ctx' = CountCycle(
                       [feature_ctx EXCEPT !.seq_number = r.seq_number],
                       r.result, s.status)
                /\ feature_buffer' = reset.buf
                /\ last_error_flags' = reset.flags
                /\ obs' = [obs EXCEPT
                             !.nbuilt = IF r.result = 0 THEN @ + 1 ELSE @,
                             !.built = IF r.result = 0
                                       THEN Append(@, [pkt |-> r.pkt,
                                                       samples |-> feature_buffer.sample_count,
                                                       status |-> s.status])
                                       ELSE @]
       ELSE UNCHANGED <<feature_ctx, feature_buffer, last_error_flags, output_queue, obs>>
    /\ UNCHANGED <<build, ran, start_pc, frame_counter, frame_queue, senderVars,
                   http_out>>

\* a clean frame source that stops after the first frame of a fourth batch
FrameSource_ProduceBatches ==
    FrameSource_Queue({0}, MaxFaults, MaxExtractorFrames, FALSE)

NextExtractorSteps ==
    \/ FrameSource_ProduceBatches
    \/ Telemetry_Init
    \/ AudioAcquisition_Start
    \/ FeatureExtraction_Start
    \/ Telemetry_Start_Ok
    \/ Telemetry_Start_SetStarted
    \/ FeatureExtraction_QueueReceive
    \/ FeatureExtraction_Dispatch
    \/ FeatureExtraction_CheckBatch
    \/ NetXDuo_Receive
    \/ NetXDuo_Transmit
    \/ NetXDuo_CacheCopyBegin
    \/ NetXDuo_CacheCopyEnd
    \/ CubeIDE_Receive
    \/ CubeIDE_Transmit
    \/ CubeIDE_BufferPut
    \/ Telemetry_AddPacket

SpecExtractorSteps == Init /\ [][NextExtractorSteps]_vars

(* ------------------------------------------------------------------ *)
(* Claims on the extractor loop                                        *)
(* ------------------------------------------------------------------ *)
\* C31: in every state of the extractor sample_count is a multiple of
\* AUDIO_FRAME_SIZE and at most AUDIO_SAMPLES_PER_PACKET, every copy into the
\* accumulator writes only indices in 0 .. 2047, and the copy statement
\* applied to an accumulator with fewer than AUDIO_FRAME_SIZE slots left
\* appends nothing.
C31_AccumulatorBounded ==
    /\ feature_buffer.sample_count % AUDIO_FRAME_SIZE = 0
    /\ feature_buffer.sample_count <= AUDIO_SAMPLES_PER_PACKET
    /\ obs.copied \subseteq 0 .. AUDIO_SAMPLES_PER_PACKET - 1
    /\ feature_buffer.sample_count + AUDIO_FRAME_SIZE > AUDIO_SAMPLES_PER_PACKET
           => AccumulateFrame(feature_buffer, last_error_flags, sys.frame).buf
                  = feature_buffer

\* the fourth frame of a batch has just been copied to the last 512 slots,
\* after an earlier batch was finished
C31_Witness ==
    /\ sys.fx_pc = "check"
    /\ feature_buffer.sample_count = AUDIO_SAMPLES_PER_PACKET
    /\ obs.copied = (AUDIO_SAMPLES_PER_PACKET - AUDIO_FRAME_SIZE)
                        .. (AUDIO_SAMPLES_PER_PACKET - 1)
    /\ Len(obs.built) >= 1

\* a step of the extractor inside an iteration whose tx_queue_receive
\* returned one of `statuses`: the return itself, or the branch taken on it
IterationStep(statuses) ==
    \/ /\ sys.fx_pc = "receive" /\ sys'.fx_pc = "status"
       /\ sys'.fx_status \in statuses
    \/ /\ sys.fx_pc = "status" /\ sys'.fx_pc = "receive"
       /\ sys.fx_status \in statuses

\* C32: an extractor iteration whose receive timed out (TX_QUEUE_EMPTY)
\* changes nothing: the accumulator with its sample_count, the merged error
\* flags, packet_count, error_count, seq_number, the frame queue and
\* PacketQueue are the same after each of its steps.
C32_TimeoutChangesNothing ==
    [][IterationStep({"TX_QUEUE_EMPTY"})
          => UNCHANGED <<feature_buffer, last_error_flags, feature_ctx,
                         frame_queue, output_queue>>]_vars

\* a timed-out iteration has ended with half a batch accumulated and a
\* packet already counted
C32_Witness ==
    /\ sys.fx_pc = "receive" /\ sys.fx_status = "TX_QUEUE_EMPTY"
    /\ feature_buffer.sample_count = 2 * AUDIO_FRAME_SIZE
    /\ feature_ctx.packet_count >= 1

\* C33: an extractor iteration whose receive failed with a status other than
\* the timeout adds exactly one to error_count and leaves the accumulator,
\* sample_count, the merged error flags, seq_number, packet_count, the frame
\* queue and PacketQueue unchanged.
C33_ReceiveErrorCounted ==
    [][IterationStep(QueueErrors)
          => /\ feature_ctx' = [feature_ctx EXCEPT
                                  !.error_count = IF sys.fx_pc = "status"
                                                  THEN @ + 1 ELSE @]
             /\ UNCHANGED <<feature_buffer, last_error_flags, frame_queue,
                            output_queue>>]_vars

\* a failed receive has been counted while a frame was in the accumulator
C33_Witness ==
    /\ sys.fx_pc = "receive" /\ sys.fx_status \in QueueErrors
    /\ feature_buffer.sample_count = AUDIO_FRAME_SIZE
    /\ feature_ctx.error_count >= 1
    /\ obs.fx_errors >= 1

\* C34: the extractor's sequence counter is in 0 .. 65535 before and after
\* every step; a step that builds a packet gives it the counter's value
\* before the increment and advances the counter by 1 modulo 65536, on a
\* queued packet and on a dropped one alike; no other step changes it.
C34_SeqCounterWraps ==
    [][/\ feature_ctx.seq_number \in 0 .. SEQ_MAX
       /\ feature_ctx'.seq_number \in 0 .. SEQ_MAX
       /\ IF obs'.nbuilt = obs.nbuilt + 1
          THEN /\ obs'.built[Len(obs'.built)].pkt.seq_number = feature_ctx.seq_number
               /\ feature_ctx'.seq_number = (feature_ctx.seq_number + 1) % UINT16_RANGE
          ELSE feature_ctx'.seq_number = feature_ctx.seq_number]_vars

\* the counter has wrapped to 0 after a queued packet numbered 65535 and
\* has advanced to 1 on the next packet, dropped on the full PacketQueue
C34_Witness ==
    /\ feature_ctx.seq_number = 1
    /\ Len(obs.built) >= 2
    /\ obs.built[Len(obs.built)].status = "TX_QUEUE_FULL"
    /\ obs.built[Len(obs.built)].pkt.seq_number = 0
    /\ obs.built[Len(obs.built) - 1].status = "TX_SUCCESS"
    /\ obs.built[Len(obs.built) - 1].pkt.seq_number = SEQ_MAX

\* the packets built since the initial state that tx_queue_send refused
QueueFullDrops ==
    Cardinality({k \in 1 .. Len(obs.built) : obs.built[k].status = "TX_QUEUE_FULL"})

\* C38: packets are conserved across PacketQueue: in every state the
\* extractor's packet_count is the number of packets in PacketQueue plus the
\* number the sender has dequeued, PacketQueue holds at most
\* FEATURE_EXTRACT_QUEUE_DEPTH (2) packets, and the number of packets built
\* is packet_count plus the number of packets dropped on the full queue.
C38_PacketsConserved ==
    /\ feature_ctx.packet_count = Len(output_queue) + obs.dequeued
    /\ Len(output_queue) <= FEATURE_EXTRACT_QUEUE_DEPTH
    /\ obs.nbuilt = feature_ctx.packet_count + QueueFullDrops

\* PacketQueue was filled, a third packet was dropped on it, and the sender
\* has since taken a packet
C38_Witness ==
    /\ Len(output_queue) = FEATURE_EXTRACT_QUEUE_DEPTH - 1
    /\ obs.dequeued > ran
    /\ QueueFullDrops >= 1
    /\ feature_ctx.packet_count = ran + FEATURE_EXTRACT_QUEUE_DEPTH

(* ------------------------------------------------------------------ *)
(* The ring cache under any sequence of calls (CubeIDE, Core)          *)
(* ------------------------------------------------------------------ *)
InitRing ==
    Init /\ build \in {"CubeIDE", "Core"}

\* Telemetry_BufferPut(&packet) from tx_mutex_get to tx_mutex_put
Telemetry_BufferPut_Call ==
    /\ telemetry_initialized /\ telemetry_buffer.mutex = "none"
    /\ obs.produced + obs.reads < MaxRingCalls
    /\ LET packet == SentPacket(build, ran + obs.produced)
           locked == tx_mutex_get(telemetry_buffer, "caller")
           r == IF build = "CubeIDE"
                THEN Telemetry_BufferPut_CubeIDE(locked, packet)
                ELSE Telemetry_BufferPut_Core(locked, packet)
       IN  /\ telemetry_buffer' = tx_mutex_put(r.buf)
           /\ http_out' = [http_out EXCEPT !.ret = r.ret]
    /\ obs' = [obs EXCEPT !.produced = @ + 1]
    /\ UNCHANGED <<build, ran, sys, start_pc, frame_counter, frame_queue, extractorVars,
                   output_queue, telemetry_ctx, telemetry_last_pkt,
                   telemetry_last_pkt_valid, sequence_number, tx_count, error_count,
                   telemetry_initialized, telemetry_started, tel_pc, tel_pkt,
                   tel_status, udp_socket>>

\* Telemetry_BufferGet(&packet) from tx_mutex_get to tx_mutex_put
Telemetry_BufferGet_Call ==
    /\ telemetry_initialized /\ telemetry_buffer.mutex = "none"
    /\ obs.produced + obs.reads < MaxRingCalls
    /\ LET r == Telemetry_BufferGet(tx_mutex_get(telemetry_buffer, "caller"),
                                    http_out.pkt)
       IN  /\ telemetry_buffer' = tx_mutex_put(r.buf)
           /\ http_out' = [http_out EXCEPT !.ret = r.ret, !.pkt = r.pkt]
    /\ obs' = [obs EXCEPT !.reads = @ + 1]
    /\ UNCHANGED <<build, ran, sys, start_pc, frame_counter, frame_queue, extractorVars,
                   output_queue, telemetry_ctx, telemetry_last_pkt,
                   telemetry_last_pkt_valid, sequence_number, tx_count, error_count,
                   telemetry_initialized, telemetry_started, tel_pc, tel_pkt,
                   tel_status, udp_socket>>

NextRing ==
    \/ Telemetry_Init
    \/ Telemetry_BufferPut_Call
    \/ Telemetry_BufferGet_Call

SpecRing == InitRing /\ [][NextRing]_vars

\* C37: under any sequence of Telemetry_BufferPut and Telemetry_BufferGet
\* calls, write_index and read_index of the ring are in 0 .. 9, packet_count
\* is in 0 .. 10, and write_index = (read_index + packet_count) mod 10.
C37_RingIndices ==
    /\ telemetry_buffer.write_index \in 0 .. TELEMETRY_MAX_PACKETS - 1
    /\ telemetry_buffer.read_index \in 0 .. TELEMETRY_MAX_PACKETS - 1
    /\ telemetry_buffer.packet_count \in 0 .. TELEMETRY_MAX_PACKETS
    /\ telemetry_buffer.write_index =
           (telemetry_buffer.read_index + telemetry_buffer.packet_count)
               % TELEMETRY_MAX_PACKETS

\* the CubeIDE ring was filled from empty, two puts overwrote the oldest
\* packets, and a get then removed one
C37_Witness ==
    /\ build = "CubeIDE" /\ ran = 0
    /\ obs.produced = TELEMETRY_MAX_PACKETS + 2 /\ obs.reads = 1
    /\ telemetry_buffer.read_index = 3
    /\ telemetry_buffer.packet_count = TELEMETRY_MAX_PACKETS - 1
    /\ http_out.ret = 1

(* ------------------------------------------------------------------ *)
(* App_Startup_Thread_Entry from its first statement                   *)
(* ------------------------------------------------------------------ *)
\* the kernel and the network stack when the startup thread is created: no
\* address yet
NoAddress ==
    [AddressAssigned EXCEPT !.IpAddress = IP_NONE, !.ip_seen = FALSE]

InitStartup ==
    InitAt(EmptyFeatureBuffer, NoAddress, "ip_wait") /\ ran = 0

\* the network stack stores the address it was assigned in IpAddress
IpAddress_Assigned ==
    /\ sys.IpAddress = IP_NONE
    /\ sys' = [sys EXCEPT !.IpAddress = IP_ADDRESS(192, 168, 1, 50)]
    /\ UNCHANGED <<build, ran, start_pc, frame_counter, frame_queue, extractorVars,
                   output_queue, senderVars, http_out, obs>>

\* Error_Handler() called at `place` of the startup thread: it does not
\* return, the thread stays there
Error_Handler(place) == place

\* variant: the wait has no limit
App_Startup_Waits_Unbounded(IpAddress, wait_count) ==
    IpAddress = IP_NONE

\* while (IpAddress == 0 && wait_count < 600)
App_Startup_Waits(IpAddress, wait_count) ==
    IpAddress = IP_NONE /\ wait_count < IP_WAIT_POLLS

\* one turn of the wait loop: tx_thread_sleep(100); wait_count++
App_Startup_Poll ==
    /\ start_pc = "ip_wait"
    /\ App_Startup_Waits(sys.IpAddress, sys.wait_count)
    /\ sys' = [sys EXCEPT !.wait_count = @ + 1]
    /\ UNCHANGED <<build, ran, start_pc, frame_counter, frame_queue, extractorVars,
                   output_queue, senderVars, http_out, obs>>

\* the wait loop is left
App_Startup_WaitOver ==
    /\ start_pc = "ip_wait"
    /\ ~App_Startup_Waits(sys.IpAddress, sys.wait_count)
    /\ start_pc' = "ip_check"
    /\ UNCHANGED <<build, ran, sys, frame_counter, frame_queue, extractorVars,
                   output_queue, senderVars, http_out, obs>>

\* if (IpAddress == 0) Error_Handler();
App_Startup_CheckAddress ==
    /\ start_pc = "ip_check"
    /\ start_pc' = IF sys.IpAddress = IP_NONE THEN Error_Handler("no_address") ELSE "init"
    /\ sys' = [sys EXCEPT !.ip_seen = (sys.IpAddress # IP_NONE)]
    /\ UNCHANGED <<build, ran, frame_counter, frame_queue, extractorVars,
                   output_queue, senderVars, http_out, obs>>

\* if (!audio_queue || !feature_queue) Error_Handler(): a stage's Init did
\* not allocate its thread stack, so its GetQueue returns NULL
App_Startup_QueueMissing ==
    /\ start_pc = "acq"
    /\ start_pc' = Error_Handler("queue_error")
    /\ UNCHANGED <<build, ran, sys, frame_counter, frame_queue, extractorVars,
                   output_queue, senderVars, http_out, obs>>

\* AudioAcquisition_Start() returns a status other than TX_SUCCESS
AudioAcquisition_Start_Fail ==
    /\ start_pc = "acq"
    /\ start_pc' = Error_Handler("acq_error")
    /\ UNCHANGED <<build, ran, sys, frame_counter, frame_queue, extractorVars,
                   output_queue, senderVars, http_out, obs>>

\* FeatureExtraction_Start(audio_queue) returns the status of a failed
\* tx_thread_resume; is_running was set before
FeatureExtraction_Start_Fail ==
    /\ start_pc = "feat"
    /\ feature_ctx' = [feature_ctx EXCEPT !.is_running = 1]
    /\ start_pc' = Error_Handler("feat_error")
    /\ UNCHANGED <<build, ran, sys, frame_counter, frame_queue, feature_buffer,
                   last_error_flags, output_queue, senderVars, http_out, obs>>

NextStartup ==
    \/ IpAddress_Assigned
    \/ App_Startup_Poll
    \/ App_Startup_WaitOver
    \/ App_Startup_CheckAddress
    \/ Telemetry_Init
    \/ App_Startup_QueueMissing
    \/ AudioAcquisition_Start
    \/ AudioAcquisition_Start_Fail
    \/ FeatureExtraction_Start
    \/ FeatureExtraction_Start_Fail
    \/ Telemetry_Start_Ok
    \/ Telemetry_Start_SetStarted
    \/ Telemetry_Start_Fail

SpecStartup == InitStartup /\ [][NextStartup]_vars

\* AudioAcquisition_Start() has returned TX_SUCCESS
AcquisitionStarted ==
    start_pc \in {"feat", "feat_error", "tel", "tel_flag", "error", "done"}

\* Telemetry_Start has been called
SenderStartCalled ==
    SenderStarted \/ udp_socket # "none" \/ start_pc \in {"tel_flag", "error", "done"}

\* Telemetry_Init has not run: the sender module is as the loader left it
TelemetryUntouched ==
    /\ ~telemetry_initialized /\ tel_pc = "none"
    /\ telemetry_ctx.receiver_ip = IP_NONE /\ telemetry_ctx.is_running = 0

\* C36: in the startup thread Telemetry_Init and the three stage starts
\* happen only after IpAddress was read as assigned, in the order
\* acquisition, extraction, sender; the wait for the address ends after at
\* most 600 polls; and when no address was assigned or an init or start step
\* returned an error, no later stage is started.
C36_StartupGated ==
    /\ sys.wait_count <= IP_WAIT_POLLS
    /\ ~sys.ip_seen =>
           /\ start_pc \in {"ip_wait", "ip_check", "no_address"}
           /\ TelemetryUntouched
    /\ start_pc \in {"ip_wait", "ip_check", "no_address", "init", "init_error",
                     "acq", "queue_error", "acq_error"} =>
           feature_ctx.is_running = 0
    /\ feature_ctx.is_running = 1 => AcquisitionStarted
    /\ start_pc \in {"ip_wait", "ip_check", "no_address", "init", "init_error",
                     "acq", "queue_error", "acq_error", "feat", "feat_error"} =>
           ~SenderStartCalled
    /\ SenderStartCalled => feature_ctx.is_running = 1 /\ AcquisitionStarted

\* the address arrived during the wait and all three stages were started
C36_Witness ==
    /\ start_pc = "done" /\ sys.ip_seen
    /\ sys.wait_count \in 1 .. IP_WAIT_POLLS - 1
    /\ feature_ctx.is_running = 1 /\ udp_socket = "bound"

(* ------------------------------------------------------------------ *)
(* Telemetry_Init called again on a started system                     *)
(* ------------------------------------------------------------------ *)
\* Telemetry_Init(byte_pool, ip_instance) of the linked module, called once
\* more after the pipeline was started, while the sender is between two
\* iterations.  CubeIDE, Core: telemetry_initialized is set, the call returns
\* at once.  NetXDuo: the context is cleared by memset and set up again (the
\* stack allocation and the thread creation succeed).
Telemetry_Init_Again ==
    /\ start_pc = "done" /\ tel_pc \in {"loop", "none"}
    /\ obs.calls = <<>>
    /\ IF build = "NetXDuo"
       THEN telemetry_ctx' = [is_ready |-> 0, is_running |-> 0,
                              tx_count |-> 0, error_count |-> 0,
                              receiver_ip |-> TELEMETRY_DEFAULT_IP_ADDR,
                              receiver_port |-> TELEMETRY_UDP_PORT_RX,
                              use_broadcast |-> 1]
       ELSE telemetry_initialized /\ UNCHANGED telemetry_ctx
    /\ obs' = [obs EXCEPT !.calls = <<[fn |-> "Telemetry_Init", ret |-> "TX_SUCCESS"]>>]
    /\ UNCHANGED <<build, ran, sys, start_pc, frame_counter, frame_queue, extractorVars,
                   output_queue, telemetry_last_pkt, telemetry_last_pkt_valid,
                   sequence_number, tx_count, error_count, telemetry_initialized,
                   telemetry_started, telemetry_buffer, tel_pc, tel_pkt, tel_status,
                   udp_socket, http_out>>

NextInitAgain ==
    \/ Next
    \/ Telemetry_Init_Again

SpecInitAgain == Init /\ [][NextInitAgain]_vars

\* C40: a second call of Telemetry_Init after a successful first one returns
\* success and leaves the retained cache (packets, cursors, count), the
\* sender's sequence counter, tx_count and error_count unchanged, also when
\* packets were sent in between.
C40_InitIdempotent ==
    [][(obs.calls = <<>> /\ obs'.calls # <<>>)
          => /\ obs'.calls[1].ret = "TX_SUCCESS"
             /\ UNCHANGED <<telemetry_buffer, telemetry_last_pkt,
                            telemetry_last_pkt_valid, sequence_number>>
             /\ Telemetry_GetTxCount' = Telemetry_GetTxCount
             /\ Telemetry_GetErrorCount' = Telemetry_GetErrorCount]_vars

(* ------------------------------------------------------------------ *)
(* Progress of the sender                                              *)
(* ------------------------------------------------------------------ *)
\* the sender loop runs and its endpoint is bound
SenderRunsBound ==
    SenderStarted /\ udp_socket = "bound"

\* the k-th packet built since the initial state was accepted by PacketQueue
EnqueuedPacket(k) ==
    k <= Len(obs.built) /\ obs.built[k].status = "TX_SUCCESS"

\* the k-th packet built since the initial state went through a transmit
\* attempt and was written to the retained cache: the sender has since
\* taken a further packet, or its last cache write is this packet
CachedPacket(k) ==
    /\ k <= Len(obs.built)
    /\ \E i \in 1 .. Len(obs.handed) :
         /\ obs.handed[i].features = obs.built[k].pkt.features
         /\ \/ i < Len(obs.handed)
            \/ /\ obs.last.status # "none"
               /\ obs.last.pkt.features = obs.built[k].pkt.features

\* C39: once the sender runs with a bound endpoint and is scheduled whenever
\* it can run, every packet enqueued in PacketQueue is eventually dequeued,
\* passed through a transmit attempt and written to the retained cache.
C39_EnqueuedIsCached ==
    \A k \in 1 .. (MaxFrames \div AUDIO_FRAMES_PER_PACKET) :
        (EnqueuedPacket(k) /\ SenderRunsBound) ~> CachedPacket(k)

(* ------------------------------------------------------------------ *)
(* Stages suspended and resumed by another thread                      *)
(* ------------------------------------------------------------------ *)
\* tx_thread_suspend(thread) called by another thread on a started stage
\* that is between two queue waits: at the top of its loop
tx_thread_suspend_Call ==
    /\ start_pc = "done" /\ sys.suspensions < MaxSuspensions
    /\ \E stage \in {"extractor", "sender"} \ sys.suspended :
         /\ stage = "extractor" => feature_ctx.is_running = 1 /\ sys.fx_pc = "receive"
         /\ stage = "sender" => SenderRunsBound /\ tel_pc = "loop"
         /\ sys' = [sys EXCEPT !.suspended = @ \cup {stage},
                               !.suspensions = @ + 1]
    /\ UNCHANGED <<build, ran, start_pc, frame_counter, frame_queue, extractorVars,
                   output_queue, senderVars, http_out, obs>>

\* tx_thread_resume(thread) called by another thread: the stage carries on
\* where it was
tx_thread_resume_Call ==
    /\ \E stage \in sys.suspended :
         sys' = [sys EXCEPT
                   !.suspended = @ \ {stage},
                   !.resumed_at[stage] = IF stage = "extractor" THEN obs.received
                                         ELSE obs.dequeued]
    /\ UNCHANGED <<build, ran, start_pc, frame_counter, frame_queue, extractorVars,
                   output_queue, senderVars, http_out, obs>>

\* a step of Telemetry_ThreadEntry while the thread is not suspended
SenderThread_Step ==
    /\ "sender" \notin sys.suspended
    /\ \/ NetXDuo_Receive
       \/ NetXDuo_Transmit
       \/ NetXDuo_CacheCopyBegin
       \/ NetXDuo_CacheCopyEnd
       \/ CubeIDE_Receive
       \/ CubeIDE_Transmit
       \/ CubeIDE_BufferPut

\* a clean frame source that stops after the first frame of a third batch
FrameSource_ProduceForSuspension ==
    FrameSource_Queue({0}, MaxFaults, MaxSuspendFrames, FALSE)

\* a system with a sender thread that has been running for a long time
InitSuspend ==
    InitPoolExhausted /\ ran = NearWrap

NextSuspend ==
    \/ FrameSource_ProduceForSuspension
    \/ FeatureExtraction_QueueReceive
    \/ FeatureExtraction_Dispatch
    \/ FeatureExtraction_CheckBatch
    \/ SenderThread_Step
    \/ tx_thread_suspend_Call
    \/ tx_thread_resume_Call

SpecSuspend == InitSuspend /\ [][NextSuspend]_vars

\* the stage is suspended before or after this step
SuspendedAcross(stage) ==
    stage \in sys.suspended \/ stage \in sys'.suspended

====
